---- MODULE Spec2Model ----
(***************************************************************************)
(* SCADA ingestion and reporting commands (processor/management/commands)  *)
(* as a state machine over the four source tables of processor/models.py.  *)
(*                                                                         *)
(* Conventions                                                             *)
(*   - a timestamp is a number of seconds since 2022-01-01 00:00:00; NaT   *)
(*     is the value pandas gives to a timestamp that did not parse; time   *)
(*     zones are not modelled (whether the database hands back zone-aware  *)
(*     values is a setting outside the commands), timestamps are compared  *)
(*     by their wall-clock instant;                                        *)
(*   - strings that the code transforms (asset identifiers, header cells)  *)
(*     are sequences of one-character strings, so that strip/upper/lower/  *)
(*     split are computed on the characters;                               *)
(*   - a numeric cell is a natural number, or one of NaN (blank cell as    *)
(*     pandas reads it), TextCell (non numeric text), NULL (SQL null).     *)
(***************************************************************************)
EXTENDS Integers, Sequences, FiniteSets, TLC

(***************************************************************************)
(* Bounds of the model                                                     *)
(***************************************************************************)
MaxRuns == 2
MaxFiles == 2
MaxRows == 3
MaxSheets == 2

(* batch and page sizes of the commands, scaled down *)
batch_size_extraction == 2
batch_size_enercon == 2
chunk_size == 3
batch_size_gtmw == 2
page_size_gtmw == 1
page_size_inhouse == 2

(***************************************************************************)
(* Cell values                                                             *)
(***************************************************************************)
NaT == -1
NULL == -1
NaN == -2
TextCell == -3
None == -1
(* the value of parsed after a step that reads no row *)
NoRow == -4

IsNumber(v) == v >= 0

(***************************************************************************)
(* Strings as character sequences                                          *)
(***************************************************************************)
UpperChar(c) ==
    CASE c = "a" -> "A"
      [] c = "b" -> "B"
      [] c = "c" -> "C"
      [] c = "l" -> "L"
      [] c = "o" -> "O"
      [] c = "t" -> "T"
      [] c = "e" -> "E"
      [] c = "g" -> "G"
      [] c = "n" -> "N"
      [] c = "d" -> "D"
      [] OTHER -> c

LowerChar(c) ==
    CASE c = "A" -> "a"
      [] c = "B" -> "b"
      [] c = "C" -> "c"
      [] c = "L" -> "l"
      [] c = "O" -> "o"
      [] c = "T" -> "t"
      [] c = "E" -> "e"
      [] c = "G" -> "g"
      [] c = "N" -> "n"
      [] c = "D" -> "d"
      [] OTHER -> c

upper(s) == [i \in 1..Len(s) |-> UpperChar(s[i])]

lower(s) == [i \in 1..Len(s) |-> LowerChar(s[i])]

IsSpace(c) == c = " "

RECURSIVE lstrip(_)
lstrip(s) == IF s # <<>> /\ IsSpace(Head(s)) THEN lstrip(Tail(s)) ELSE s

RECURSIVE rstrip(_)
rstrip(s) ==
    IF s # <<>> /\ IsSpace(s[Len(s)]) THEN rstrip(SubSeq(s, 1, Len(s) - 1)) ELSE s

strip(s) == rstrip(lstrip(s))

(* "sub in s" of Python *)
Contains(s, sub) ==
    \E i \in 1..(Len(s) - Len(sub) + 1) : SubSeq(s, i, i + Len(sub) - 1) = sub

(* s.split(): the maximal runs of non-space characters *)
RECURSIVE SplitFrom(_, _, _)
SplitFrom(s, cur, acc) ==
    IF s = <<>>
    THEN IF cur = <<>> THEN acc ELSE Append(acc, cur)
    ELSE IF IsSpace(Head(s))
         THEN SplitFrom(Tail(s), <<>>, IF cur = <<>> THEN acc ELSE Append(acc, cur))
         ELSE SplitFrom(Tail(s), Append(cur, Head(s)), acc)

split(s) == SplitFrom(s, <<>>, <<>>)

(***************************************************************************)
(* The store: four tables, each a sequence of rows                         *)
(***************************************************************************)
Tables == {"scada_data", "scada_data_enercon", "gtmw", "inhouse_scada_data"}

(* the columns of the uniqueness key of each table *)
unique_fields ==
    [scada_data |-> <<"datetime", "locno">>,
     scada_data_enercon |-> <<"asset_name", "date">>,
     gtmw |-> <<"device", "date">>,
     inhouse_scada_data |-> <<"timestamp", "asset_name">>]

(* the columns overwritten when the key exists *)
update_fields ==
    [scada_data |-> {"outdoor_temp", "wind_speed", "nacelle_pos", "active_power",
                     "frequency"},
     scada_data_enercon |-> {"active_power_generation", "wind_direction_outside_nacelle",
                             "wind_speed_outside_nacelle", "temperature_outside_nacelle"},
     gtmw |-> {"quality", "misalignment_percent", "avg_active_power",
               "avg_ambient_temperature", "avg_wind_speed"},
     inhouse_scada_data |-> {"active_power_generation", "windspeed_outside_nacelle",
                             "temperature_outside_nacelle",
                             "winddirection_outside_nacelle"}]

(* the float columns of each table *)
float_fields ==
    [scada_data |-> update_fields["scada_data"],
     scada_data_enercon |-> update_fields["scada_data_enercon"],
     gtmw |-> update_fields["gtmw"] \ {"quality"},
     inhouse_scada_data |-> update_fields["inhouse_scada_data"]]

KeyOf(t, r) == <<r[unique_fields[t][1]], r[unique_fields[t][2]]>>

HasKey(t, rows, k) == \E i \in 1..Len(rows) : KeyOf(t, rows[i]) = k

(* two rows proposed by one statement carry the same key *)
DuplicateKeys(t, recs) ==
    \E i, j \in 1..Len(recs) : i < j /\ KeyOf(t, recs[i]) = KeyOf(t, recs[j])

(* a value the database refuses in a float column *)
BadFloat(t, r) == \E c \in float_fields[t] : r[c] = TextCell

(* a plain INSERT of one row, without the ON CONFLICT clause *)
InsertRow(t, rows, r) == Append(rows, r)

(* INSERT ... ON CONFLICT (key) DO UPDATE SET col = EXCLUDED.col, one row *)
UpsertRow(t, rows, r) ==
    IF HasKey(t, rows, KeyOf(t, r))
    THEN [i \in 1..Len(rows) |->
            IF KeyOf(t, rows[i]) = KeyOf(t, r)
            THEN [c \in DOMAIN rows[i] |->
                    IF c \in update_fields[t] THEN r[c] ELSE rows[i][c]]
            ELSE rows[i]]
    ELSE Append(rows, r)

RECURSIVE UpsertAll(_, _, _)
UpsertAll(t, rows, recs) ==
    IF recs = <<>> THEN rows
    ELSE UpsertAll(t, UpsertRow(t, rows, Head(recs)), Tail(recs))

(* one INSERT ... VALUES (...), (...) statement whose conflict clause is    *)
(* never taken: every row of the statement is added                         *)
InsertAll(t, rows, recs, err) ==
    IF err \/ (\E i \in 1..Len(recs) : BadFloat(t, recs[i]))
    THEN [ok |-> FALSE, rows |-> rows]
    ELSE [ok |-> TRUE, rows |-> rows \o recs]

(* One INSERT ... VALUES (...), (...) ON CONFLICT DO UPDATE statement.  It   *)
(* is applied whole or not at all; it raises when the database errs (err), *)
(* when a value does not fit its column, or when two of its rows have the  *)
(* same key (the statement may not affect a row a second time).            *)
InsertOnConflict(t, rows, recs, err) ==
    IF err \/ DuplicateKeys(t, recs) \/ (\E i \in 1..Len(recs) : BadFloat(t, recs[i]))
    THEN [ok |-> FALSE, rows |-> rows]
    ELSE [ok |-> TRUE, rows |-> UpsertAll(t, rows, recs)]

(* cursor.executemany: one statement per record, each committed on its own. *)
(* errAt = 0: the database never errs; errAt = j: it errs on statement j.  *)
RECURSIVE executemany(_, _, _, _)
executemany(t, rows, recs, errAt) ==
    IF recs = <<>> THEN [ok |-> TRUE, rows |-> rows]
    ELSE LET r == InsertOnConflict(t, rows, <<Head(recs)>>, errAt = 1)
         IN  IF r.ok
             THEN executemany(t, r.rows, Tail(recs), IF errAt = 0 THEN 0 ELSE errAt - 1)
             ELSE r

(* psycopg2 execute_values: one statement per page of page_size records *)
RECURSIVE execute_values(_, _, _, _, _)
execute_values(t, rows, recs, page_size, errAt) ==
    IF recs = <<>> THEN [ok |-> TRUE, rows |-> rows]
    ELSE LET n == IF Len(recs) < page_size THEN Len(recs) ELSE page_size
             r == InsertOnConflict(t, rows, SubSeq(recs, 1, n), errAt = 1)
         IN  IF r.ok
             THEN execute_values(t, r.rows, SubSeq(recs, n + 1, Len(recs)), page_size,
                                 IF errAt = 0 THEN 0 ELSE errAt - 1)
             ELSE r

(***************************************************************************)
(* Raw cells of the input files                                            *)
(***************************************************************************)
(* A timestamp cell: fmt is what the cell holds, t the instant it denotes. *)
(*   "datetime"  a spreadsheet date cell                                   *)
(*   "dmy"       text DD-MM-YYYY HH:MM:SS                                  *)
(*   "iso"       text YYYY-MM-DD HH:MM:SS                                  *)
(*   "junk"      any other text,   "blank"  an empty cell                  *)
DateCell(fmt, t) == [fmt |-> fmt, t |-> t]

(* pd.to_datetime(x, format="%d-%m-%Y %H:%M:%S", errors="coerce") *)
to_datetime_dmy(c) == IF c.fmt \in {"dmy", "datetime"} THEN c.t ELSE NaT

(* pd.to_datetime(x, errors="coerce"), format inferred *)
to_datetime(c) == IF c.fmt \in {"datetime", "iso", "dmy"} THEN c.t ELSE NaT

A1 == <<"A", "1">>
a1_ == <<"a", "1", " ">>
B2 == <<"B", "2">>

IngestAssets == {A1}

(* the four numeric cells of a row of a single-asset file *)
MetricCells == {<<1, 1, 1, 1>>, <<2, NaN, 2, 2>>}

MetricCellsText == MetricCells \cup {<<TextCell, 1, 1, 1>>}

(* the (timestamp cell, other cells) pairs of the rows of the input files: *)
(* every timestamp cell with the cells m0, every cells with the timestamp  *)
(* cell d0, so that two rows of one instant can differ in their cells      *)
RowPairs(dateCells, cells, d0, m0) ==
    {p \in dateCells \X cells : p[1] = d0 \/ p[2] = m0}

(***************************************************************************)
(* State                                                                   *)
(***************************************************************************)
VARIABLES
    store,        \* [Tables -> sequence of rows]
    cmd,          \* the management command whose runs the behaviour follows
    pc,           \* "idle", "files", "rows", "done", "crashed"
    nruns,        \* commands started so far
    opened,       \* files opened so far, all runs together
    filesLeft,    \* files of the run not opened yet
    rowsLeft,     \* rows of the open file (sheet, chunk) not read yet
    inChunk,      \* rows read from the current chunk (import_enercon_scada)
    records,      \* the buffer: batch (extraction), records (the imports)
    writeFailed,  \* a store write of this run raised
    unsent,       \* readings built by this run and abandoned without a write
    columns,      \* df.columns of the open CSV file (import_inhouse)
    sheetsLeft,   \* sheets of the open workbook not visited yet (extraction)
    locno_map,    \* locno_map of the open sheet (extraction)
    lastWrite,    \* the call of a store writer that the last step made, if any
    once,         \* re-run of a file: the table as the first run is taken to leave it
    store2,       \* re-run of a file: the table of the second run
    rpc,          \* report_othermakes: "idle", "import", "tables", "api", "items", "done"
    request,      \* the --year / --date arguments of the report
    master_index, \* master_index of fetch_all_data, global_time_index of handle
    tableNo,      \* the entry of tables that fetch_all_data visits next
    fetched,      \* the tables whose query and grouping did not raise
    data_map,     \* data_map of fetch_all_data, all_data_map of handle
    api_data,     \* the machine list that the API returned
    machine_no,   \* machine_no of handle: the items of api_data visited so far
    df,           \* df of the item visited last, after the reindex
    headers,      \* headers of handle
    machine_dataframes, \* machine_dataframes of handle
    full_report,  \* full_report of handle, the rows of the CSV file
    sheet,        \* extraction: the sheet visited last (name, first column, headers)
    header_row,   \* extraction: header_row of the sheet visited last
    skipped,      \* extraction: sheets of the workbook passed over (legend, no header)
    built,        \* extraction: the keys of the readings put in batch by the run
    spc,          \* report: "idle", "import", "query", "api", "write", "done"
    timestamps,   \* report: timestamps of handle, the sorted keys of data_map
    scada_map,    \* report: data_map of handle, timestamp -> asset -> record
    machines,     \* report: machine_data of handle, in the order of its keys
    workbook,     \* report: the rows of the sheet that wb.save has written
    calls,        \* both reports: the calls of requests.get made by the run
    raised,       \* both reports: the try block of the fetch has raised
    parsed,       \* ingestion: the timestamp parsed from the row read by the last step
    reached,      \* re-run after an interruption: once is what a prefix of the writes left
    inputs,       \* two runs on one table: the records of the file of each run
    queue,        \* two runs on one table: the statements each run has still to send
    pos,          \* two runs on one table: the rows done of the statement in progress
    readings,     \* ingestion: the readings built from the open file, in the order built
    handed        \* ingestion: the batches of the open file handed to the store writer

vars == <<store, cmd, pc, nruns, opened, filesLeft, rowsLeft, inChunk, records, writeFailed,
          unsent, columns, sheetsLeft, locno_map, lastWrite, once, store2,
          rpc, request, master_index, tableNo, fetched, data_map, api_data, machine_no, df,
          headers, machine_dataframes, full_report, sheet, header_row, skipped, built,
          spc, timestamps, scada_map, machines, workbook, calls, raised, parsed,
          reached, inputs, queue, pos, readings, handed>>

(* the variables of the re-run of a file *)
rerunVars == <<once, store2, reached>>

(* the variables of two runs that write one table at the same time *)
twoVars == <<inputs, queue, pos>>

(* the record of the readings built and of the batches written *)
batchVars == <<readings, handed>>

(* the variables of the report command *)
fetchVars == <<master_index, tableNo, fetched, data_map>>
handleVars == <<api_data, machine_no, df, headers, machine_dataframes, full_report>>
scadaVars == <<spc, timestamps, scada_map, machines, workbook>>
apiVars == <<calls, raised>>
reportVars == <<rpc, request, fetchVars, handleVars, scadaVars, apiVars>>

(* what is watched of the sheets of extraction *)
sheetVars == <<sheet, header_row, skipped, built, parsed>>

(* the variables of the ingestion commands, the store apart *)
ingestVars == <<cmd, pc, nruns, opened, filesLeft, rowsLeft, inChunk, records, writeFailed,
                unsent, columns, sheetsLeft, locno_map, lastWrite>>

(* the variables that only one command uses, and the counters of the runs *)
locals == <<inChunk, columns, sheetsLeft, locno_map>>
notEnercon == <<columns, sheetsLeft, locno_map>>
notInhouse == <<inChunk, sheetsLeft, locno_map>>
notExtraction == <<inChunk, columns>>
run == <<cmd, nruns>>

(* the record of a call of a store writer *)
Write(t, recs, err) == [t |-> t, recs |-> recs, err |-> err]
NoWrite == Write("none", <<>>, FALSE)

Commands == {"extraction", "import_enercon_scada", "import_gtmw", "import_inhouse"}

(* the table each command writes, and no other *)
TableOf ==
    [extraction |-> "scada_data",
     import_enercon_scada |-> "scada_data_enercon",
     import_gtmw |-> "gtmw",
     import_inhouse |-> "inhouse_scada_data"]

(* A behaviour follows the runs of one command, over the empty tables.  The *)
(* commands share no state but the store and each writes its own table     *)
(* (OwnTableOnly below), so the runs of different commands do not interact. *)
InitIngestion ==
    /\ store = [t \in Tables |-> <<>>]
    /\ pc = "idle"
    /\ nruns = 0
    /\ opened = 0
    /\ filesLeft = 0
    /\ rowsLeft = 0
    /\ inChunk = 0
    /\ records = <<>>
    /\ writeFailed = FALSE
    /\ unsent = 0
    /\ columns = <<>>
    /\ sheetsLeft = 0
    /\ locno_map = <<>>
    /\ lastWrite = NoWrite

(* the report command before its first step *)
InitReportVars ==
    /\ master_index = <<>>
    /\ tableNo = 0
    /\ fetched = {}
    /\ data_map = <<>>
    /\ api_data = <<>>
    /\ machine_no = 0
    /\ df = <<>>
    /\ headers = <<>>
    /\ machine_dataframes = <<>>
    /\ full_report = <<>>
    /\ spc = "idle"
    /\ timestamps = <<>>
    /\ scada_map = <<>>
    /\ machines = <<>>
    /\ workbook = <<>>
    /\ calls = 0
    /\ raised = FALSE

(* no second run writes the table at the same time *)
InitTwoVars ==
    /\ inputs = <<>>
    /\ queue = <<>>
    /\ pos = <<>>

(* nothing is built and nothing is written before the first step *)
InitBatchVars ==
    /\ readings = <<>>
    /\ handed = <<>>

(* the sheets of extraction before the first one is visited *)
InitSheetVars ==
    /\ sheet = <<>>
    /\ header_row = None
    /\ skipped = 0
    /\ built = {}
    /\ parsed = NoRow

Init ==
    /\ InitIngestion
    /\ cmd \in Commands
    /\ once = <<>>
    /\ store2 = <<>>
    /\ rpc = "idle"
    /\ request = <<>>
    /\ InitReportVars
    /\ InitSheetVars
    /\ InitTwoVars
    /\ InitBatchVars
    /\ reached = FALSE

(* handle(): the command starts on a folder (or file argument) of n files; *)
(* n = 0 also stands for a folder that does not exist.                     *)
StartRun(n) ==
    /\ pc \in {"idle", "done", "crashed"}
    /\ nruns < MaxRuns
    /\ nruns' = nruns + 1
    /\ opened + n <= MaxFiles
    /\ filesLeft' = n
    /\ pc' = "files"
    /\ rowsLeft' = 0
    /\ records' = <<>>
    /\ writeFailed' = FALSE
    /\ unsent' = 0
    /\ lastWrite' = NoWrite
    /\ UNCHANGED <<store, cmd, opened, locals>>

(* the loop over the files is exhausted *)
EndRun ==
    /\ pc = "files"
    /\ filesLeft = 0
    /\ pc' = "done"
    /\ lastWrite' = NoWrite
    /\ UNCHANGED <<store, run, opened, filesLeft, rowsLeft, records, writeFailed,
                   unsent, locals>>

(***************************************************************************)
(* import_enercon_scada                                                    *)
(***************************************************************************)
EnerconDateCells ==
    {DateCell("dmy", 0), DateCell("dmy", 37), DateCell("iso", 0), DateCell("blank", NaT)}

EnerconRawRows ==
    {[date |-> p[1], asset_name |-> a,
      active_power_generation |-> p[2][1],
      wind_direction_outside_nacelle |-> p[2][2],
      wind_speed_outside_nacelle |-> p[2][3],
      temperature_outside_nacelle |-> p[2][4]] :
        p \in RowPairs(EnerconDateCells, MetricCellsText, DateCell("dmy", 0), <<1, 1, 1, 1>>),
        a \in IngestAssets}

(* bulk_upsert of import_enercon_scada *)
bulk_upsert_enercon(rows, recs, errAt) ==
    executemany("scada_data_enercon", rows, recs, errAt)

(* the file is opened; assigning the six column names raises when the file *)
(* does not have six columns, and nothing catches it                       *)
EnerconOpenFile(ncols, n) ==
    /\ cmd = "import_enercon_scada"
    /\ pc = "files"
    /\ filesLeft > 0
    /\ filesLeft' = filesLeft - 1
    /\ opened' = opened + 1
    /\ IF ncols = 6
       THEN /\ pc' = "rows"
            /\ rowsLeft' = n
       ELSE /\ pc' = "crashed"
            /\ rowsLeft' = 0
    /\ inChunk' = 0
    /\ lastWrite' = NoWrite
    /\ UNCHANGED <<store, run, records, writeFailed, unsent, notEnercon>>

(* one turn of "for _, row in chunk.iterrows()" *)
EnerconRow(row, errAt) ==
    /\ cmd = "import_enercon_scada"
    /\ pc = "rows"
    /\ rowsLeft > 0
    /\ inChunk < chunk_size
    /\ rowsLeft' = rowsLeft - 1
    /\ inChunk' = inChunk + 1
    /\ LET date == to_datetime_dmy(row.date)
           recs == IF date = NaT THEN records
                   ELSE Append(records, [row EXCEPT !.date = date])
       IN  IF date # NaT /\ Len(recs) >= batch_size_enercon
           THEN LET r == bulk_upsert_enercon(store["scada_data_enercon"], recs, errAt)
                IN  /\ store' = [store EXCEPT !["scada_data_enercon"] = r.rows]
                    /\ lastWrite' = Write("scada_data_enercon", recs, errAt # 0)
                    /\ IF r.ok
                       THEN /\ records' = <<>>
                            /\ UNCHANGED <<pc, writeFailed>>
                       ELSE /\ records' = recs
                            /\ pc' = "crashed"
                            /\ writeFailed' = TRUE
           ELSE /\ errAt = 0
                /\ records' = recs
                /\ lastWrite' = NoWrite
                /\ UNCHANGED <<store, pc, writeFailed>>
    /\ UNCHANGED <<run, opened, filesLeft, unsent, notEnercon>>

(* the chunk is exhausted: "if records: bulk_upsert"; then the next chunk  *)
(* of the file, or the next file                                           *)
EnerconChunkEnd(errAt) ==
    /\ cmd = "import_enercon_scada"
    /\ pc = "rows"
    /\ inChunk = chunk_size \/ rowsLeft = 0
    /\ inChunk' = 0
    /\ IF records # <<>>
       THEN LET r == bulk_upsert_enercon(store["scada_data_enercon"], records, errAt)
            IN  /\ store' = [store EXCEPT !["scada_data_enercon"] = r.rows]
                /\ lastWrite' = Write("scada_data_enercon", records, errAt # 0)
                /\ IF r.ok
                   THEN /\ records' = <<>>
                        /\ pc' = IF rowsLeft = 0 THEN "files" ELSE "rows"
                        /\ UNCHANGED writeFailed
                   ELSE /\ records' = records
                        /\ pc' = "crashed"
                        /\ writeFailed' = TRUE
       ELSE /\ errAt = 0
            /\ pc' = IF rowsLeft = 0 THEN "files" ELSE "rows"
            /\ lastWrite' = NoWrite
            /\ UNCHANGED <<store, records, writeFailed>>
    /\ UNCHANGED <<run, opened, filesLeft, rowsLeft, unsent, notEnercon>>

(***************************************************************************)
(* import_gtmw                                                             *)
(***************************************************************************)
GtmwDateCells ==
    {DateCell("datetime", 0), DateCell("datetime", 37), DateCell("junk", NaT)}

(* quality and the four numeric cells of a row *)
GtmwCells == {<<"good", 1, 1, 1, 1>>, <<"bad", TextCell, NaN, 2, 2>>}

GtmwRawRows ==
    {[device |-> a, time_only |-> p[1], quality |-> p[2][1],
      misalignment_percent |-> p[2][2],
      avg_active_power |-> p[2][3],
      avg_ambient_temperature |-> p[2][4],
      avg_wind_speed |-> p[2][5]] :
        p \in RowPairs(GtmwDateCells, GtmwCells, DateCell("datetime", 0),
                       <<"good", 1, 1, 1, 1>>),
        a \in IngestAssets}

(* pd.to_numeric(x, errors="coerce") *)
to_numeric(v) == IF IsNumber(v) THEN v ELSE NaN

(* the tuple that zip(...) builds from one row of the frame *)
GtmwRecord(row) ==
    [device |-> row.device,
     date |-> to_datetime(row.time_only),
     quality |-> row.quality,
     misalignment_percent |-> to_numeric(row.misalignment_percent),
     avg_active_power |-> to_numeric(row.avg_active_power),
     avg_ambient_temperature |-> to_numeric(row.avg_ambient_temperature),
     avg_wind_speed |-> to_numeric(row.avg_wind_speed)]

(* bulk_upsert of import_gtmw *)
bulk_upsert_gtmw(rows, recs, errAt) ==
    execute_values("gtmw", rows, recs, page_size_gtmw, errAt)

(* pd.read_excel; a file of fewer than 7 columns is reported and skipped *)
GtmwOpenFile(ncols, n) ==
    /\ cmd = "import_gtmw"
    /\ pc = "files"
    /\ filesLeft > 0
    /\ filesLeft' = filesLeft - 1
    /\ opened' = opened + 1
    /\ IF ncols < 7
       THEN UNCHANGED <<pc, rowsLeft>>
       ELSE /\ pc' = "rows"
            /\ rowsLeft' = n
    /\ records' = <<>>
    /\ lastWrite' = NoWrite
    /\ UNCHANGED <<store, run, writeFailed, unsent, locals>>

(* the conversion of the frame without dropna(subset=["date"]) *)
GtmwRowKeepsNaT(row) ==
    /\ cmd = "import_gtmw"
    /\ pc = "rows"
    /\ rowsLeft > 0
    /\ rowsLeft' = rowsLeft - 1
    /\ records' = Append(records, GtmwRecord(row))
    /\ pc' = IF rowsLeft = 1 THEN "write" ELSE "rows"
    /\ lastWrite' = NoWrite
    /\ UNCHANGED <<store, run, opened, filesLeft, writeFailed, unsent, locals>>

(* the frame is converted row by row; dropna(subset=["date"]) *)
GtmwRow(row) ==
    /\ cmd = "import_gtmw"
    /\ pc = "rows"
    /\ rowsLeft > 0
    /\ rowsLeft' = rowsLeft - 1
    /\ LET rec == GtmwRecord(row)
       IN  records' = IF rec.date = NaT THEN records ELSE Append(records, rec)
    /\ pc' = IF rowsLeft = 1 THEN "write" ELSE "rows"
    /\ lastWrite' = NoWrite
    /\ UNCHANGED <<store, run, opened, filesLeft, writeFailed, unsent, locals>>

(* one turn of "for i in range(0, len(records), batch_size)"; the except   *)
(* clause around the whole file ends the file at the first failure         *)
GtmwBatch(errAt) ==
    /\ cmd = "import_gtmw"
    /\ pc = "write"
    /\ records # <<>>
    /\ LET n == IF Len(records) < batch_size_gtmw THEN Len(records) ELSE batch_size_gtmw
           batch == SubSeq(records, 1, n)
           rest == SubSeq(records, n + 1, Len(records))
           r == bulk_upsert_gtmw(store["gtmw"], batch, errAt)
       IN  /\ store' = [store EXCEPT !["gtmw"] = r.rows]
           /\ lastWrite' = Write("gtmw", batch, errAt # 0)
           /\ IF r.ok
              THEN /\ records' = rest
                   /\ UNCHANGED <<pc, writeFailed, unsent>>
              ELSE /\ records' = <<>>
                   /\ pc' = "files"
                   /\ writeFailed' = TRUE
                   /\ unsent' = unsent + Len(rest)
    /\ UNCHANGED <<run, opened, filesLeft, rowsLeft, locals>>

GtmwEndFile ==
    /\ cmd = "import_gtmw"
    /\ pc = "write"
    /\ records = <<>>
    /\ pc' = "files"
    /\ lastWrite' = NoWrite
    /\ UNCHANGED <<store, run, opened, filesLeft, rowsLeft, records, writeFailed,
                   unsent, locals>>

(***************************************************************************)
(* import_inhouse                                                          *)
(***************************************************************************)
(* df.columns.str.strip().str.lower() on the header cells of the model *)
strip_lower(h) ==
    CASE h \in {"date", " Date", "DATE "} -> "date"
      [] h \in {"asset name", "Asset Name"} -> "asset name"
      [] h \in {"activepowergeneration", "ActivePowerGeneration"}
            -> "activepowergeneration"
      [] h \in {"windspeedoutsidenacelle", "WindSpeedOutsideNacelle"}
            -> "windspeedoutsidenacelle"
      [] h \in {"temperatureoutsidenacelle", "TemperatureOutsideNacelle"}
            -> "temperatureoutsidenacelle"
      [] h \in {"winddirectionoutsidenacelle", "WindDirectionOutsideNacelle"}
            -> "winddirectionoutsidenacelle"
      [] OTHER -> h

column_map ==
    [x \in {"date", "asset name", "activepowergeneration", "windspeedoutsidenacelle",
            "temperatureoutsidenacelle", "winddirectionoutsidenacelle"} |->
        CASE x = "date" -> "timestamp"
          [] x = "asset name" -> "asset_name"
          [] x = "activepowergeneration" -> "active_power_generation"
          [] x = "windspeedoutsidenacelle" -> "windspeed_outside_nacelle"
          [] x = "temperatureoutsidenacelle" -> "temperature_outside_nacelle"
          [] x = "winddirectionoutsidenacelle" -> "winddirection_outside_nacelle"]

(* the column list of INSERT INTO inhouse_scada_data (...) *)
insert_columns ==
    <<"timestamp", "asset_name", "active_power_generation", "windspeed_outside_nacelle",
      "temperature_outside_nacelle", "winddirection_outside_nacelle">>

(* header rows of the CSV files of the model *)
InhouseHeaders ==
    {<<"date", "asset name", "activepowergeneration", "windspeedoutsidenacelle",
       "temperatureoutsidenacelle", "winddirectionoutsidenacelle">>,
     <<" Date", "Asset Name", "ActivePowerGeneration", "WindSpeedOutsideNacelle",
       "TemperatureOutsideNacelle", "WindDirectionOutsideNacelle">>,
     <<"date", "asset name", "windspeedoutsidenacelle", "activepowergeneration",
       "temperatureoutsidenacelle", "winddirectionoutsidenacelle">>,
     <<"date", "asset name", "activepowergeneration", "windspeedoutsidenacelle",
       "temperatureoutsidenacelle">>,
     <<"date", "asset name", "activepowergeneration", "windspeedoutsidenacelle",
       "temperatureoutsidenacelle", "winddirectionoutsidenacelle", "remark">>}

InhouseDateCells == {DateCell("dmy", 0), DateCell("dmy", 37), DateCell("iso", 0)}

(* a CSV row, by the normalised name of the column that holds each cell; a *)
(* column outside the expected six holds the cell "extra"                  *)
InhouseRawRows ==
    {[x \in DOMAIN column_map |->
        CASE x = "date" -> p[1]
          [] x = "asset name" -> a
          [] x = "activepowergeneration" -> p[2][1]
          [] x = "windspeedoutsidenacelle" -> p[2][2]
          [] x = "temperatureoutsidenacelle" -> p[2][3]
          [] x = "winddirectionoutsidenacelle" -> p[2][4]] :
        p \in RowPairs(InhouseDateCells, MetricCells, DateCell("dmy", 0), <<1, 1, 1, 1>>),
        a \in IngestAssets}

(* df.where(pd.notnull(df), None) *)
where_notnull(v) == IF v = NaN THEN NULL ELSE v

(* the tuple of df.itertuples for one row: the cells in the order of the   *)
(* columns of the file, the timestamp parsed                               *)
InhouseTuple(cols, row) ==
    [i \in 1..Len(cols) |->
        IF cols[i] \notin DOMAIN column_map THEN 0
        ELSE IF cols[i] = "date" THEN to_datetime_dmy(row["date"])
        ELSE IF cols[i] = "asset name" THEN row["asset name"]
        ELSE where_notnull(row[cols[i]])]

(* execute_values(cursor, insert_query, records, page_size=10000): VALUES  *)
(* %s binds each tuple to the column list of the INSERT by position; a     *)
(* tuple that does not have six values is refused by the database          *)
TuplesFit(tuples) == \A i \in 1..Len(tuples) : Len(tuples[i]) = Len(insert_columns)

BoundRows(tuples) ==
    [i \in 1..Len(tuples) |->
        [c \in {insert_columns[k] : k \in 1..Len(insert_columns)} |->
            tuples[i][CHOOSE k \in 1..Len(insert_columns) : insert_columns[k] = c]]]

insert_inhouse(rows, tuples, errAt) ==
    IF ~TuplesFit(tuples)
    THEN [ok |-> FALSE, rows |-> rows]
    ELSE execute_values("inhouse_scada_data", rows, BoundRows(tuples), page_size_inhouse,
                        errAt)

(* process_csv up to the rename: a missing column ends the file *)
InhouseOpenFile(header, n) ==
    /\ cmd = "import_inhouse"
    /\ pc = "files"
    /\ filesLeft > 0
    /\ filesLeft' = filesLeft - 1
    /\ opened' = opened + 1
    /\ LET cols == [i \in 1..Len(header) |-> strip_lower(header[i])]
           file_columns == {cols[i] : i \in 1..Len(cols)}
           missing_columns == DOMAIN column_map \ file_columns
       IN  IF missing_columns # {}
           THEN UNCHANGED <<pc, rowsLeft, columns>>
           ELSE /\ pc' = "rows"
                /\ rowsLeft' = n
                /\ columns' = cols
    /\ records' = <<>>
    /\ lastWrite' = NoWrite
    /\ UNCHANGED <<store, run, writeFailed, unsent, notInhouse>>

(* the frame is cleaned row by row: dropna(subset=["timestamp","asset_name"]) *)
InhouseRow(row) ==
    /\ cmd = "import_inhouse"
    /\ pc = "rows"
    /\ rowsLeft > 0
    /\ rowsLeft' = rowsLeft - 1
    /\ records' = IF to_datetime_dmy(row["date"]) = NaT THEN records
                  ELSE Append(records, InhouseTuple(columns, row))
    /\ pc' = IF rowsLeft = 1 THEN "write" ELSE "rows"
    /\ lastWrite' = NoWrite
    /\ UNCHANGED <<store, run, opened, filesLeft, writeFailed, unsent, locals>>

(* "if df.empty: return", else the one execute_values call of the file, in *)
(* its try/except                                                          *)
InhouseWrite(errAt) ==
    /\ cmd = "import_inhouse"
    /\ pc = "write"
    /\ IF records = <<>>
       THEN /\ errAt = 0
            /\ lastWrite' = NoWrite
            /\ UNCHANGED <<store, writeFailed>>
       ELSE LET r == insert_inhouse(store["inhouse_scada_data"], records, errAt)
            IN  /\ store' = [store EXCEPT !["inhouse_scada_data"] = r.rows]
                /\ lastWrite' = IF TuplesFit(records)
                                THEN Write("inhouse_scada_data", BoundRows(records),
                                           errAt # 0)
                                ELSE Write("inhouse_scada_data", <<>>, TRUE)
                /\ writeFailed' = (writeFailed \/ ~r.ok)
    /\ records' = <<>>
    /\ pc' = "files"
    /\ UNCHANGED <<run, opened, filesLeft, rowsLeft, unsent, locals>>

(***************************************************************************)
(* extraction                                                              *)
(***************************************************************************)
(* the number of leading rows of a sheet read to look for the header *)
nrows == 10

Local == <<"l", "o", "c", "a", "l">>
Legend == <<"l", "e", "g", "e", "n", "d">>

(* the header search over every row of the sheet, not only the first nrows *)
HeaderRowWholeSheet(firstCol) ==
    LET hits == {i \in 0..(Len(firstCol) - 1) : Contains(lower(firstCol[i + 1]), Local)}
    IN  IF hits = {} THEN None
        ELSE CHOOSE i \in hits : \A j \in hits : i <= j

(* the header search of process_file over the first column of the sheet:   *)
(* the zero-based index of the first row of the probe window whose first   *)
(* cell, lower-cased, contains "local", or None                            *)
HeaderRow(firstCol) ==
    LET raw_df == SubSeq(firstCol, 1, IF Len(firstCol) < nrows THEN Len(firstCol) ELSE nrows)
        hits == {i \in 0..(Len(raw_df) - 1) : Contains(lower(raw_df[i + 1]), Local)}
    IN  IF hits = {} THEN None
        ELSE CHOOSE i \in hits : \A j \in hits : i <= j

(* locno_map[locno] = value, a dict: a known key keeps its place *)
DictSet(map, locno, value) ==
    IF \E k \in 1..Len(map) : map[k].locno = locno
    THEN [k \in 1..Len(map) |->
            IF map[k].locno = locno THEN [locno |-> locno, col |-> value] ELSE map[k]]
    ELSE Append(map, [locno |-> locno, col |-> value])

(* the while loop with "i + 4 <= len(columns)" for its condition *)
RECURSIVE BuildLocnoMapOneMore(_, _, _)
BuildLocnoMapOneMore(cols, i, map) ==
    IF ~(i + 4 <= Len(cols)) THEN map
    ELSE LET parts == split(cols[i + 1])
         IN  IF Len(parts) >= 2
             THEN BuildLocnoMapOneMore(cols, i + 5, DictSet(map, parts[2], i))
             ELSE BuildLocnoMapOneMore(cols, i + 1, map)

(* the while loop that builds locno_map; i and col are zero-based column   *)
(* indexes, col the first of the five columns of the locno                 *)
RECURSIVE BuildLocnoMap(_, _, _)
BuildLocnoMap(cols, i, map) ==
    IF ~(i + 4 < Len(cols)) THEN map
    ELSE LET parts == split(cols[i + 1])
         IN  IF Len(parts) >= 2
             THEN BuildLocnoMap(cols, i + 5, DictSet(map, parts[2], i))
             ELSE BuildLocnoMap(cols, i + 1, map)

(* to_float of process_file: float(val), 0.0 when float raises *)
to_float(val) == IF val = TextCell THEN 0 ELSE val

(* dt_obj.replace(second=0, microsecond=0) *)
replace_second_0(t) == t - (t % 60)

(* the SCADAData objects of one row, one per locno of locno_map; cells[j]  *)
(* is the cell of the row in the column of zero-based index j              *)
RowRecords(map, dt_obj, cells) ==
    [k \in 1..Len(map) |->
        [locno |-> map[k].locno,
         datetime |-> dt_obj,
         outdoor_temp |-> to_float(cells[map[k].col]),
         wind_speed |-> to_float(cells[map[k].col + 1]),
         nacelle_pos |-> to_float(cells[map[k].col + 2]),
         active_power |-> to_float(cells[map[k].col + 3]),
         frequency |-> to_float(cells[map[k].col + 4])]]

(* save_batch: one bulk_create(update_conflicts=True) statement *)
save_batch(rows, batch, err) == InsertOnConflict("scada_data", rows, batch, err)

(* input sheets of the model *)
LocalTime == <<"L", "o", "c", "a", "l", " ", "T">>
Title == <<"n", "o", "t", "e">>

HeaderOf(locno) ==
    <<<<"T", " ">> \o locno, <<"W", " ">> \o locno, <<"N", " ">> \o locno,
      <<"P", " ">> \o locno, <<"F", " ">> \o locno>>

SheetNames == {<<"D", "a", "t", "a">>, <<"L", "e", "g", "e", "n", "d">>}

FirstCols == {<<LocalTime>>, <<Title, LocalTime>>, <<Title, Title>>}

HeaderRests ==
    {HeaderOf(A1), HeaderOf(A1) \o HeaderOf(B2), HeaderOf(A1) \o <<<<"T", " ", "B", "2">>, Title>>}

ExtractionDateCells ==
    {DateCell("datetime", 0), DateCell("datetime", 37), DateCell("blank", NaT),
     DateCell("junk", NaT)}

ExtractionCells ==
    {[j \in 1..10 |-> 1],
     [j \in 1..10 |-> IF j = 2 THEN NaN ELSE 2],
     [j \in 1..10 |-> IF j = 1 THEN TextCell ELSE IF j <= 5 THEN 1 ELSE 2]}

ExtractionRawRows ==
    {[dt |-> p[1], cells |-> p[2]] :
        p \in RowPairs(ExtractionDateCells, ExtractionCells, DateCell("datetime", 0),
                       [j \in 1..10 |-> 1])}

(* process_file starts: pd.ExcelFile, batch = []; a workbook that does not *)
(* open behaves as one without sheets                                      *)
ExtractionOpenFile(nsheets) ==
    /\ cmd = "extraction"
    /\ pc = "files"
    /\ filesLeft > 0
    /\ filesLeft' = filesLeft - 1
    /\ opened' = opened + 1
    /\ sheetsLeft' = nsheets
    /\ records' = <<>>
    /\ pc' = "sheets"
    /\ lastWrite' = NoWrite
    /\ UNCHANGED <<store, run, rowsLeft, writeFailed, unsent, locno_map, notExtraction>>

(* the next sheet, with "break" where the code has "continue": a sheet     *)
(* passed over ends the workbook                                           *)
ExtractionSheetBreak(name, firstCol, rest, n) ==
    /\ cmd = "extraction"
    /\ pc = "sheets"
    /\ sheetsLeft > 0
    /\ LET found == HeaderRow(firstCol)
       IN  IF lower(name) = Legend \/ found = None \/ n = 0
           THEN /\ sheetsLeft' = 0
                /\ UNCHANGED <<pc, rowsLeft, locno_map>>
           ELSE /\ sheetsLeft' = sheetsLeft - 1
                /\ locno_map' = BuildLocnoMap(<<firstCol[found + 1]>> \o rest, 1, <<>>)
                /\ rowsLeft' = n
                /\ pc' = "rows"
    /\ lastWrite' = NoWrite
    /\ UNCHANGED <<store, run, opened, filesLeft, records, writeFailed, unsent,
                   notExtraction>>

(* the next sheet: skipped when it is the legend, has no header row or no  *)
(* data row; else its column groups are mapped                             *)
ExtractionSheet(name, firstCol, rest, n) ==
    /\ cmd = "extraction"
    /\ pc = "sheets"
    /\ sheetsLeft > 0
    /\ sheetsLeft' = sheetsLeft - 1
    /\ LET found == HeaderRow(firstCol)
       IN  IF lower(name) = Legend \/ found = None \/ n = 0
           THEN UNCHANGED <<pc, rowsLeft, locno_map>>
           ELSE /\ locno_map' = BuildLocnoMap(<<firstCol[found + 1]>> \o rest, 1, <<>>)
                /\ rowsLeft' = n
                /\ pc' = "rows"
    /\ lastWrite' = NoWrite
    /\ UNCHANGED <<store, run, opened, filesLeft, records, writeFailed, unsent,
                   notExtraction>>

(* one turn of "for _, row in df.iterrows()" *)
ExtractionRow(row, err) ==
    /\ cmd = "extraction"
    /\ pc = "rows"
    /\ rowsLeft > 0
    /\ rowsLeft' = rowsLeft - 1
    /\ pc' = IF rowsLeft = 1 THEN "sheets" ELSE "rows"
    /\ LET dt_obj == to_datetime(row.dt)
       IN  IF dt_obj = NaT
           THEN /\ ~err
                /\ lastWrite' = NoWrite
                /\ UNCHANGED <<store, records, writeFailed>>
           ELSE LET batch == records \o
                        RowRecords(locno_map, replace_second_0(dt_obj), row.cells)
                IN  IF Len(batch) >= batch_size_extraction
                    THEN LET r == save_batch(store["scada_data"], batch, err)
                         IN  /\ store' = [store EXCEPT !["scada_data"] = r.rows]
                             /\ lastWrite' = Write("scada_data", batch, err)
                             /\ writeFailed' = (writeFailed \/ ~r.ok)
                             /\ records' = <<>>
                    ELSE /\ ~err
                         /\ records' = batch
                         /\ lastWrite' = NoWrite
                         /\ UNCHANGED <<store, writeFailed>>
    /\ UNCHANGED <<run, opened, filesLeft, unsent, sheetsLeft, locno_map, notExtraction>>

(* an exception inside the sheet: "except Exception" leaves the sheet, the *)
(* readings already in batch stay there                                    *)
ExtractionSheetError ==
    /\ cmd = "extraction"
    /\ pc = "rows"
    /\ rowsLeft' = 0
    /\ pc' = "sheets"
    /\ lastWrite' = NoWrite
    /\ UNCHANGED <<store, run, opened, filesLeft, records, writeFailed, unsent,
                   sheetsLeft, locno_map, notExtraction>>

(* after the last sheet: "if batch: self.save_batch(batch)" *)
ExtractionEndFile(err) ==
    /\ cmd = "extraction"
    /\ pc = "sheets"
    /\ sheetsLeft = 0
    /\ IF records # <<>>
       THEN LET r == save_batch(store["scada_data"], records, err)
            IN  /\ store' = [store EXCEPT !["scada_data"] = r.rows]
                /\ lastWrite' = Write("scada_data", records, err)
                /\ writeFailed' = (writeFailed \/ ~r.ok)
       ELSE /\ ~err
            /\ lastWrite' = NoWrite
            /\ UNCHANGED <<store, writeFailed>>
    /\ records' = <<>>
    /\ pc' = "files"
    /\ UNCHANGED <<run, opened, filesLeft, rowsLeft, unsent, sheetsLeft, locno_map,
                   notExtraction>>

(* a step of an ingestion command: it leaves the other variables alone *)
Ingestion(A) == A /\ UNCHANGED <<rerunVars, twoVars, batchVars, reportVars, sheetVars>>

Next ==
    \/ \E n \in 0..MaxFiles : Ingestion(StartRun(n))
    \/ Ingestion(EndRun)
    \/ \E nsheets \in 0..MaxSheets : Ingestion(ExtractionOpenFile(nsheets))
    \/ \E name \in SheetNames, firstCol \in FirstCols, rest \in HeaderRests, n \in 0..MaxRows :
          Ingestion(ExtractionSheet(name, firstCol, rest, n))
    \/ \E row \in ExtractionRawRows, err \in BOOLEAN :
          Ingestion(ExtractionRow(row, err))
    \/ Ingestion(ExtractionSheetError)
    \/ \E err \in BOOLEAN : Ingestion(ExtractionEndFile(err))
    \/ \E ncols \in {6, 7}, n \in 1..MaxRows : Ingestion(EnerconOpenFile(ncols, n))
    \/ \E row \in EnerconRawRows, errAt \in 0..batch_size_enercon :
          Ingestion(EnerconRow(row, errAt))
    \/ \E errAt \in 0..batch_size_enercon : Ingestion(EnerconChunkEnd(errAt))
    \/ \E ncols \in {6, 7}, n \in 1..MaxRows : Ingestion(GtmwOpenFile(ncols, n))
    \/ \E row \in GtmwRawRows : Ingestion(GtmwRow(row))
    \/ \E errAt \in 0..batch_size_gtmw : Ingestion(GtmwBatch(errAt))
    \/ Ingestion(GtmwEndFile)
    \/ \E header \in InhouseHeaders, n \in 1..MaxRows :
          Ingestion(InhouseOpenFile(header, n))
    \/ \E row \in InhouseRawRows : Ingestion(InhouseRow(row))
    \/ \E errAt \in 0..MaxRows : Ingestion(InhouseWrite(errAt))

Spec == Init /\ [][Next]_vars

(***************************************************************************)
(* Re-run of a file                                                        *)
(*                                                                         *)
(* No command reads the store, so a second run of a command over the same  *)
(* file reads the same rows, takes the same branches and makes the same    *)
(* calls of the store writer as the first.  The two runs are followed in   *)
(* step: store holds the table of the first run, which starts empty, and   *)
(* store2 the table of the second run, which starts from once, any content *)
(* the first run may leave.  When the first run does end with once, store2 *)
(* is the table after the two runs.  The database itself does not err.     *)
(***************************************************************************)
(* the rows each command can write to its table *)
StorableRows(t) ==
    CASE t = "scada_data" ->
            UNION {LET recs == RowRecords(BuildLocnoMap(<<LocalTime>> \o rest, 1, <<>>),
                                          replace_second_0(to_datetime(row.dt)), row.cells)
                   IN  {recs[k] : k \in 1..Len(recs)} :
                        rest \in HeaderRests,
                        row \in {r \in ExtractionRawRows : to_datetime(r.dt) # NaT}}
      [] t = "scada_data_enercon" ->
            {[row EXCEPT !.date = to_datetime_dmy(row.date)] :
                row \in {r \in EnerconRawRows :
                            to_datetime_dmy(r.date) # NaT /\ ~BadFloat(t, r)}}
      [] t = "gtmw" ->
            {GtmwRecord(row) : row \in {r \in GtmwRawRows : to_datetime(r.time_only) # NaT}}
      [] t = "inhouse_scada_data" ->
            {BoundRows(<<InhouseTuple([i \in 1..Len(h) |-> strip_lower(h[i])], row)>>)[1] :
                h \in {g \in InhouseHeaders :
                          {strip_lower(g[i]) : i \in 1..Len(g)} = DOMAIN column_map},
                row \in {r \in InhouseRawRows : to_datetime_dmy(r["date"]) # NaT}}

(* the contents a table can have: rows of pairwise different keys *)
Contents(t) ==
    LET S == StorableRows(t)
        n == Cardinality({KeyOf(t, r) : r \in S})
    IN  UNION {{q \in [1..k -> S] :
                    \A i, j \in 1..k : KeyOf(t, q[i]) = KeyOf(t, q[j]) => i = j} :
               k \in 0..n}

(* the call w of the store writer of the command, made on the table rows *)
SecondWrite(t, rows, w) ==
    IF w.t = "none" THEN rows
    ELSE CASE t = "scada_data" -> save_batch(rows, w.recs, FALSE).rows
           [] t = "scada_data_enercon" -> bulk_upsert_enercon(rows, w.recs, 0).rows
           [] t = "gtmw" -> bulk_upsert_gtmw(rows, w.recs, 0).rows
           [] t = "inhouse_scada_data" ->
                execute_values(t, rows, w.recs, page_size_inhouse, 0).rows

InitRerun ==
    /\ InitIngestion
    /\ cmd \in Commands
    /\ once \in Contents(TableOf[cmd])
    /\ store2 = once
    /\ rpc = "idle"
    /\ request = <<>>
    /\ InitReportVars
    /\ InitSheetVars
    /\ InitTwoVars
    /\ InitBatchVars
    /\ reached = FALSE

(* a step of the first run, and the same step of the second *)
Rerun(A) ==
    /\ A
    /\ store2' = SecondWrite(TableOf[cmd], store2, lastWrite')
    /\ UNCHANGED <<once, reached, twoVars, batchVars, reportVars, sheetVars>>

NextRerun ==
    \/ nruns = 0 /\ Rerun(StartRun(1))
    \/ Rerun(EndRun)
    \/ \E nsheets \in 0..MaxSheets : Rerun(ExtractionOpenFile(nsheets))
    \/ \E name \in SheetNames, firstCol \in FirstCols, rest \in HeaderRests, n \in 0..MaxRows :
          Rerun(ExtractionSheet(name, firstCol, rest, n))
    \/ \E row \in ExtractionRawRows : Rerun(ExtractionRow(row, FALSE))
    \/ Rerun(ExtractionSheetError)
    \/ Rerun(ExtractionEndFile(FALSE))
    \/ \E ncols \in {6, 7}, n \in 1..MaxRows : Rerun(EnerconOpenFile(ncols, n))
    \/ \E row \in EnerconRawRows : Rerun(EnerconRow(row, 0))
    \/ Rerun(EnerconChunkEnd(0))
    \/ \E ncols \in {6, 7}, n \in 1..MaxRows : Rerun(GtmwOpenFile(ncols, n))
    \/ \E row \in GtmwRawRows : Rerun(GtmwRow(row))
    \/ Rerun(GtmwBatch(0))
    \/ Rerun(GtmwEndFile)
    \/ \E header \in InhouseHeaders, n \in 1..MaxRows : Rerun(InhouseOpenFile(header, n))
    \/ \E row \in InhouseRawRows : Rerun(InhouseRow(row))
    \/ Rerun(InhouseWrite(0))

SpecRerun == InitRerun /\ [][NextRerun]_vars

(***************************************************************************)
(* Re-run of a file after an interruption                                  *)
(*                                                                         *)
(* The run that is interrupted and the run that is not make the same calls *)
(* of the store writer up to the interruption, so store, the table of the  *)
(* run that is not interrupted, is after every step what an interruption   *)
(* at this step leaves.  once is taken to be what the interrupted run      *)
(* left, store2 is the table of the run started again from once, and       *)
(* reached tells that store has been equal to once after some step.        *)
(***************************************************************************)
InitResume ==
    /\ InitIngestion
    /\ cmd \in Commands
    /\ once \in Contents(TableOf[cmd])
    /\ store2 = once
    /\ reached = (once = <<>>)
    /\ rpc = "idle"
    /\ request = <<>>
    /\ InitReportVars
    /\ InitSheetVars
    /\ InitTwoVars
    /\ InitBatchVars

(* a step of the run that is not interrupted, and the same step of the run *)
(* started again                                                           *)
Resume(A) ==
    /\ A
    /\ store2' = SecondWrite(TableOf[cmd], store2, lastWrite')
    /\ reached' = (reached \/ store'[TableOf[cmd]] = once)
    /\ UNCHANGED <<once, twoVars, batchVars, reportVars, sheetVars>>

NextResume ==
    \/ nruns = 0 /\ Resume(StartRun(1))
    \/ Resume(EndRun)
    \/ \E nsheets \in 0..MaxSheets : Resume(ExtractionOpenFile(nsheets))
    \/ \E name \in SheetNames, firstCol \in FirstCols, rest \in HeaderRests, n \in 0..MaxRows :
          Resume(ExtractionSheet(name, firstCol, rest, n))
    \/ \E row \in ExtractionRawRows : Resume(ExtractionRow(row, FALSE))
    \/ Resume(ExtractionSheetError)
    \/ Resume(ExtractionEndFile(FALSE))
    \/ \E ncols \in {6, 7}, n \in 1..MaxRows : Resume(EnerconOpenFile(ncols, n))
    \/ \E row \in EnerconRawRows : Resume(EnerconRow(row, 0))
    \/ Resume(EnerconChunkEnd(0))
    \/ \E ncols \in {6, 7}, n \in 1..MaxRows : Resume(GtmwOpenFile(ncols, n))
    \/ \E row \in GtmwRawRows : Resume(GtmwRow(row))
    \/ Resume(GtmwBatch(0))
    \/ Resume(GtmwEndFile)
    \/ \E header \in InhouseHeaders, n \in 1..MaxRows : Resume(InhouseOpenFile(header, n))
    \/ \E row \in InhouseRawRows : Resume(InhouseRow(row))
    \/ Resume(InhouseWrite(0))

SpecResume == InitResume /\ [][NextResume]_vars

(***************************************************************************)
(* extraction: the sheets of a workbook, watched                           *)
(***************************************************************************)
(* ExtractionSheet, with the sheet and the header_row it finds kept; the   *)
(* legend is passed over before header_row is assigned                    *)
VisitSheet(name, firstCol, rest, n) ==
    /\ ExtractionSheet(name, firstCol, rest, n)
    /\ sheet' = [name |-> name, firstCol |-> firstCol, rest |-> rest, rows |-> n]
    /\ header_row' = IF lower(name) = Legend THEN header_row ELSE HeaderRow(firstCol)
    /\ skipped' = IF lower(name) = Legend \/ HeaderRow(firstCol) = None
                  THEN skipped + 1 ELSE skipped
    /\ UNCHANGED <<built, parsed, rerunVars, twoVars, batchVars, reportVars>>

(* rows more than nrows in the first column of a probed sheet *)
MaxProbeExtra == 1

(* str() of an empty cell *)
NanText == <<"n", "a", "n">>
UpperLocal == <<"x", "L", "O", "C", "A", "L">>

(* first columns: cells of unrelated text, up to two of them replaced by a *)
(* cell with the marker, in either case, or by an empty cell               *)
ProbeCols ==
    UNION {{[k \in 1..n |-> IF k = i THEN a ELSE IF k = j THEN b ELSE Title] :
                i \in 0..n, j \in 0..n, a \in {LocalTime, UpperLocal},
                b \in {LocalTime, NanText}} :
           n \in 0..(nrows + MaxProbeExtra)}

(* column headers after the timestamp column: up to three pieces (the five *)
(* headers of an asset, a header of one word, one header of an asset) and  *)
(* every shorter beginning of them                                         *)
ProbePieces == {HeaderOf(A1), HeaderOf(B2), <<Title>>, <<<<"T", " ", "A", "1">>>>}

ProbeRests ==
    UNION {{SubSeq(x \o y \o z, 1, n) : n \in 0..Len(x \o y \o z)} :
            x \in ProbePieces, y \in ProbePieces, z \in ProbePieces}

(* the sheets probed: every first column with the headers of one asset,    *)
(* every list of headers under a header row found at once                  *)
ProbeSheets ==
    {[name |-> nm, firstCol |-> c, rest |-> HeaderOf(A1), rows |-> 1] :
        nm \in SheetNames, c \in ProbeCols}
    \cup {[name |-> <<"D", "a", "t", "a">>, firstCol |-> <<LocalTime>>, rest |-> r,
           rows |-> 1] : r \in ProbeRests}

(* the first sheet of the first workbook of a run is about to be read *)
InitProbe ==
    /\ store = [t \in Tables |-> <<>>]
    /\ cmd = "extraction"
    /\ pc = "sheets"
    /\ nruns = 1
    /\ opened = 1
    /\ filesLeft = 0
    /\ rowsLeft = 0
    /\ inChunk = 0
    /\ records = <<>>
    /\ writeFailed = FALSE
    /\ unsent = 0
    /\ columns = <<>>
    /\ sheetsLeft = 1
    /\ locno_map = <<>>
    /\ lastWrite = NoWrite
    /\ once = <<>>
    /\ store2 = <<>>
    /\ rpc = "idle"
    /\ request = <<>>
    /\ InitReportVars
    /\ sheet \in ProbeSheets
    /\ header_row = None
    /\ skipped = 0
    /\ built = {}
    /\ parsed = NoRow
    /\ reached = FALSE
    /\ InitTwoVars
    /\ InitBatchVars

NextProbe == VisitSheet(sheet.name, sheet.firstCol, sheet.rest, sheet.rows)

SpecProbe == InitProbe /\ [][NextProbe]_vars

(* ExtractionSheet, with the name of the sheet and the header_row it finds *)
(* kept                                                                    *)
NextSheet(name, firstCol, rest, n) ==
    /\ ExtractionSheet(name, firstCol, rest, n)
    /\ sheet' = [name |-> name]
    /\ header_row' = IF lower(name) = Legend THEN header_row ELSE HeaderRow(firstCol)
    /\ skipped' = IF lower(name) = Legend \/ HeaderRow(firstCol) = None
                  THEN skipped + 1 ELSE skipped
    /\ UNCHANGED <<built, parsed, rerunVars, twoVars, batchVars, reportVars>>

(* the other steps of extraction, watched; the database does not err *)
Watch(A) == A /\ UNCHANGED <<sheetVars, rerunVars, twoVars, batchVars, reportVars>>

StartSheets(n) ==
    /\ StartRun(n)
    /\ skipped' = 0
    /\ built' = {}
    /\ UNCHANGED <<sheet, header_row, parsed, rerunVars, twoVars, batchVars, reportVars>>

OpenWorkbook(nsheets) ==
    /\ ExtractionOpenFile(nsheets)
    /\ skipped' = 0
    /\ UNCHANGED <<sheet, header_row, built, parsed, rerunVars, twoVars, batchVars, reportVars>>

(* ExtractionRow, with the keys of the readings it appends to batch kept *)
ReadRow(row, err) ==
    /\ ExtractionRow(row, err)
    /\ built' = IF to_datetime(row.dt) = NaT THEN built
                ELSE LET recs == RowRecords(locno_map, replace_second_0(to_datetime(row.dt)),
                                            row.cells)
                     IN  built \cup {KeyOf("scada_data", recs[k]) : k \in 1..Len(recs)}
    /\ UNCHANGED <<sheet, header_row, skipped, parsed, rerunVars, twoVars, batchVars, reportVars>>

InitSheets ==
    /\ InitIngestion
    /\ cmd = "extraction"
    /\ once = <<>>
    /\ store2 = <<>>
    /\ rpc = "idle"
    /\ request = <<>>
    /\ InitReportVars
    /\ InitSheetVars
    /\ InitTwoVars
    /\ InitBatchVars
    /\ reached = FALSE

NextSheets ==
    \/ nruns = 0 /\ StartSheets(MaxFiles)
    \/ Watch(EndRun)
    \/ \E nsheets \in 0..MaxSheets : OpenWorkbook(nsheets)
    \/ \E name \in SheetNames, firstCol \in FirstCols, rest \in HeaderRests, n \in 0..MaxRows :
          NextSheet(name, firstCol, rest, n)
    \/ \E row \in ExtractionRawRows : ReadRow(row, FALSE)
    \/ Watch(ExtractionSheetError)
    \/ Watch(ExtractionEndFile(FALSE))

SpecSheets == InitSheets /\ [][NextSheets]_vars

(***************************************************************************)
(* report_othermakes: the time grid                                        *)
(***************************************************************************)
(* freq='10min', in seconds *)
freq == 600

IsLeap(y) == (y % 4 = 0 /\ y % 100 # 0) \/ y % 400 = 0

DaysInYear(y) == IF IsLeap(y) THEN 366 ELSE 365

DaysInMonth(y, m) ==
    CASE m \in {1, 3, 5, 7, 8, 10, 12} -> 31
      [] m \in {4, 6, 9, 11} -> 30
      [] OTHER -> IF IsLeap(y) THEN 29 ELSE 28

(* days from 2022-01-01 to the first day of year y, of month m of year y *)
RECURSIVE DaysBeforeYear(_)
DaysBeforeYear(y) == IF y <= 2022 THEN 0 ELSE DaysBeforeYear(y - 1) + DaysInYear(y - 1)

RECURSIVE DaysBeforeMonth(_, _)
DaysBeforeMonth(y, m) ==
    IF m <= 1 THEN 0 ELSE DaysBeforeMonth(y, m - 1) + DaysInMonth(y, m - 1)

(* the instant that the text "Y-M-D h:m:s" denotes; s = <<Y, M, D, h, m, s>> *)
Timestamp(s) ==
    (((DaysBeforeYear(s[1]) + DaysBeforeMonth(s[1], s[2]) + s[3] - 1) * 24 + s[4]) * 60
        + s[5]) * 60 + s[6]

(* strftime('%Y-%m-%d %H:%M:%S'): the fields of the text, from the instant *)
RECURSIVE YearFrom(_, _)
YearFrom(days, y) ==
    IF days < DaysInYear(y) THEN <<y, days>> ELSE YearFrom(days - DaysInYear(y), y + 1)

RECURSIVE MonthFrom(_, _, _)
MonthFrom(days, y, m) ==
    IF days < DaysInMonth(y, m) THEN <<m, days>>
    ELSE MonthFrom(days - DaysInMonth(y, m), y, m + 1)

strftime(t) ==
    LET yd == YearFrom(t \div 86400, 2022)
        md == MonthFrom(yd[2], yd[1], 1)
        secs == t % 86400
    IN  <<yd[1], md[1], md[2] + 1, secs \div 3600, (secs % 3600) \div 60, secs % 60>>

(* the arguments of the command: --year, or --date (today when absent) *)
YearRequest(y) == [year |-> y, date |-> <<>>]
DateRequest(y, m, d) == [year |-> None, date |-> <<y, m, d>>]

(* start_dt of fetch_all_data *)
start_dt(rq) ==
    IF rq.year # None THEN <<rq.year, 1, 1, 0, 0, 0>> ELSE rq.date \o <<0, 0, 0>>

(* the end of the requested range one second too late: the next midnight *)
end_next_midnight(rq) ==
    IF rq.year # None THEN <<rq.year + 1, 1, 1, 0, 0, 0>> ELSE rq.date \o <<24, 0, 0>>

(* end_dt of fetch_all_data *)
end_dt(rq) ==
    IF rq.year # None THEN <<rq.year, 12, 31, 23, 59, 59>> ELSE rq.date \o <<23, 59, 59>>

(* pd.date_range(start, end, freq): start, start + freq, ... up to end *)
date_range(start, end, f) ==
    [k \in 1..(IF end < start THEN 0 ELSE (end - start) \div f + 1) |-> start + f * (k - 1)]

(***************************************************************************)
(* report_othermakes: fetch_all_data                                       *)
(***************************************************************************)
(* the list tables with the wind speed and the wind direction of the       *)
(* Enercon table taken from each other's column                            *)
tables_enercon_swapped ==
    <<[name |-> "inhouse_scada_data", date_col |-> "timestamp", asset_col |-> "asset_name",
       active_power |-> "active_power_generation",
       wind_speed |-> "windspeed_outside_nacelle",
       temp |-> "temperature_outside_nacelle",
       wind_dir |-> "winddirection_outside_nacelle"],
      [name |-> "gtmw", date_col |-> "date", asset_col |-> "device",
       active_power |-> "avg_active_power",
       wind_speed |-> "avg_wind_speed",
       temp |-> "avg_ambient_temperature",
       wind_dir |-> "NULL"],
      [name |-> "scada_data_enercon", date_col |-> "date", asset_col |-> "asset_name",
       active_power |-> "active_power_generation",
       wind_speed |-> "wind_direction_outside_nacelle",
       temp |-> "temperature_outside_nacelle",
       wind_dir |-> "wind_speed_outside_nacelle"]>>

(* the list tables of fetch_all_data, in the order of the loop *)
tables ==
    <<[name |-> "inhouse_scada_data", date_col |-> "timestamp", asset_col |-> "asset_name",
       active_power |-> "active_power_generation",
       wind_speed |-> "windspeed_outside_nacelle",
       temp |-> "temperature_outside_nacelle",
       wind_dir |-> "winddirection_outside_nacelle"],
      [name |-> "gtmw", date_col |-> "date", asset_col |-> "device",
       active_power |-> "avg_active_power",
       wind_speed |-> "avg_wind_speed",
       temp |-> "avg_ambient_temperature",
       wind_dir |-> "NULL"],
      [name |-> "scada_data_enercon", date_col |-> "date", asset_col |-> "asset_name",
       active_power |-> "active_power_generation",
       wind_speed |-> "wind_speed_outside_nacelle",
       temp |-> "temperature_outside_nacelle",
       wind_dir |-> "wind_direction_outside_nacelle"]>>

(* the metric columns of the query result *)
MetricColumns ==
    {"active_power_generation", "windspeed_outside_nacelle", "temperature_outside_nacelle",
     "winddirection_outside_nacelle"}

(* a select expression: a column of the row, or the literal NULL *)
Column(r, c) == IF c = "NULL" THEN NULL ELSE r[c]

(* WHERE date_col BETWEEN lo AND hi, both ends included, in table order *)
RECURSIVE Between(_, _, _, _)
Between(rows, c, lo, hi) ==
    IF rows = <<>> THEN <<>>
    ELSE (IF lo <= Head(rows)[c] /\ Head(rows)[c] <= hi THEN <<Head(rows)>> ELSE <<>>)
            \o Between(Tail(rows), c, lo, hi)

(* fetch_data on the query of the table: the result as a sequence of rows; *)
(* pd.to_datetime keeps the instant of a datetime value                    *)
fetch_data(table, rows, lo, hi) ==
    LET hit == Between(rows, table.date_col, lo, hi)
    IN  [i \in 1..Len(hit) |->
            [locno_key |-> strip(upper(hit[i][table.asset_col])),
             datetime |-> hit[i][table.date_col],
             active_power_generation |-> Column(hit[i], table.active_power),
             windspeed_outside_nacelle |-> Column(hit[i], table.wind_speed),
             temperature_outside_nacelle |-> Column(hit[i], table.temp),
             winddirection_outside_nacelle |-> Column(hit[i], table.wind_dir)]]

LocnoKeys(d) == {d[i].locno_key : i \in 1..Len(d)}

(* a group of df.groupby("locno_key"), with the key column dropped *)
RECURSIVE Group(_, _)
Group(d, k) ==
    IF d = <<>> THEN <<>>
    ELSE (IF Head(d).locno_key = k
          THEN <<[c \in DOMAIN Head(d) \ {"locno_key"} |-> Head(d)[c]]>>
          ELSE <<>>) \o Group(Tail(d), k)

(* sort_values("datetime"): the default sort is not stable, rows of equal  *)
(* datetime come out in any order                                          *)
sort_values(g) ==
    {[i \in 1..Len(g) |-> g[q[i]]] :
        q \in {p \in [1..Len(g) -> 1..Len(g)] :
                  /\ \A i, j \in 1..Len(g) : p[i] = p[j] => i = j
                  /\ \A i, j \in 1..Len(g) : i < j => g[p[i]].datetime <= g[p[j]].datetime}}

(* group[~group.index.duplicated(keep='first')] *)
RECURSIVE KeepFirst(_, _)
KeepFirst(g, seen) ==
    IF g = <<>> THEN <<>>
    ELSE IF Head(g).datetime \in seen THEN KeepFirst(Tail(g), seen)
    ELSE <<Head(g)>> \o KeepFirst(Tail(g), seen \cup {Head(g).datetime})

(* the groups that the loop over df.groupby can assign, by key *)
GroupOutcomes(d) ==
    LET out(k) == {KeepFirst(sorted, {}) : sorted \in sort_values(Group(d, k))}
    IN  {f \in [LocnoKeys(d) -> UNION {out(k) : k \in LocnoKeys(d)}] :
            \A k \in LocnoKeys(d) : f[k] \in out(k)}

(* the groups added to the series that data_map already has for the key *)
AssignMerged(dm, f) ==
    [k \in DOMAIN dm \cup DOMAIN f |->
        IF k \in DOMAIN f
        THEN (IF k \in DOMAIN dm THEN dm[k] ELSE <<>>) \o f[k]
        ELSE dm[k]]

(* data_map[locno] = group, for every group *)
Assign(dm, f) ==
    [k \in DOMAIN dm \cup DOMAIN f |-> IF k \in DOMAIN f THEN f[k] ELSE dm[k]]

(***************************************************************************)
(* report_othermakes: the source tables that the report reads              *)
(***************************************************************************)
(* rows in the three source tables, all together *)
MaxStored == 2

(* a row of source table t for asset a at instant ts; the metrics are      *)
(* 10v+1 .. 10v+4, so that the row and the column of a value can be told   *)
Reading(t, a, ts, v) ==
    CASE t = "inhouse_scada_data" ->
            [timestamp |-> ts, asset_name |-> a,
             active_power_generation |-> 10 * v + 1,
             windspeed_outside_nacelle |-> 10 * v + 2,
             temperature_outside_nacelle |-> 10 * v + 3,
             winddirection_outside_nacelle |-> 10 * v + 4]
      [] t = "gtmw" ->
            [device |-> a, date |-> ts, quality |-> "Good",
             misalignment_percent |-> 10 * v,
             avg_active_power |-> 10 * v + 1,
             avg_wind_speed |-> 10 * v + 2,
             avg_ambient_temperature |-> 10 * v + 3]
      [] t = "scada_data_enercon" ->
            [asset_name |-> a, date |-> ts,
             active_power_generation |-> 10 * v + 1,
             wind_speed_outside_nacelle |-> 10 * v + 2,
             temperature_outside_nacelle |-> 10 * v + 3,
             wind_direction_outside_nacelle |-> 10 * v + 4]

(* the readings of the model for entry n of tables: asset A1 at 00:00:00,  *)
(* the same asset spelled "a1 " at 00:00:00, A1 at 00:05:00 (off the grid) *)
(* and A1 at 00:00:00 of the next day                                      *)
SourceReadings(n) ==
    {Reading(tables[n].name, A1, 0, 10 * n + 1),
     Reading(tables[n].name, a1_, 0, 10 * n + 2),
     Reading(tables[n].name, A1, 300, 10 * n + 3),
     Reading(tables[n].name, A1, 86400, 10 * n + 4)}

RECURSIVE Stored(_)
Stored(n) == IF n = 0 THEN 0 ELSE Len(store[tables[n].name]) + Stored(n - 1)

(* an import has written the reading r to table t (bulk_upsert of the      *)
(* imports, one row)                                                       *)
Imported(t, r) ==
    /\ rpc = "import"
    /\ Stored(Len(tables)) < MaxStored
    /\ store' = [store EXCEPT ![t] = UpsertRow(t, @, r)]
    /\ UNCHANGED <<rpc, request, fetchVars, handleVars>>

(* fetch_all_data up to the loop over tables *)
FetchStart ==
    /\ rpc = "import"
    /\ master_index' = date_range(Timestamp(start_dt(request)), Timestamp(end_dt(request)),
                                  freq)
    /\ tableNo' = 1
    /\ fetched' = {}
    /\ data_map' = <<>>
    /\ rpc' = "tables"
    /\ UNCHANGED <<store, request, handleVars>>

(* one turn of the loop over tables; an exception of the query is reported *)
(* and the loop goes on with the next table                                *)
FetchTable(fails) ==
    /\ rpc = "tables"
    /\ LET table == tables[tableNo]
           d == fetch_data(table, store[table.name], Timestamp(start_dt(request)),
                           Timestamp(end_dt(request)))
       IN  IF fails
           THEN UNCHANGED <<data_map, fetched>>
           ELSE /\ fetched' = fetched \cup {table.name}
                /\ IF d = <<>>
                   THEN UNCHANGED data_map
                   ELSE \E f \in GroupOutcomes(d) : data_map' = Assign(data_map, f)
    /\ tableNo' = tableNo + 1
    /\ rpc' = IF tableNo = Len(tables) THEN "api" ELSE "tables"
    /\ UNCHANGED <<store, request, master_index, handleVars>>

(***************************************************************************)
(* report_othermakes: handle                                               *)
(***************************************************************************)
(* a value that pandas counts as missing *)
IsNull(v) == v \in {NULL, NaN}

(* structure: column, parameter name, unit (the first unit is the degree   *)
(* sign followed by C in the source)                                       *)
structure ==
    <<<<"temperature_outside_nacelle", "outdoor_temp", "deg C">>,
      <<"windspeed_outside_nacelle", "wind_speed", "m/s">>,
      <<"winddirection_outside_nacelle", "wind_direction", "degree">>>>

(* items of the machine list of the API *)
Machine(locno, lat, lon) == [locno |-> locno, latitude |-> lat, longitude |-> lon]

(* the machine lists of the model: none, the asset of the readings spelled *)
(* " a1", and an asset B2 that no table holds followed by it               *)
MachineLists ==
    {<<>>,
     <<Machine(<<" ", "a", "1">>, 11, 77)>>,
     <<Machine(B2, 12, 78), Machine(<<" ", "a", "1">>, 11, 77)>>}

(* the first row of every header list *)
HeaderLabels ==
    [lat |-> <<"DateTime / Latitude">>, lon |-> <<"Longitude">>, locno |-> <<"Loc No">>,
     mac |-> <<"Mac No">>, param |-> <<"Parameters">>, unit |-> <<"Units">>]

(* f"M_{machine_no}" *)
machine_label(n) == <<"M_", n>>

(* df.reindex(index) with the missing rows filled with 0 *)
reindex_fill_zero(g, index) ==
    [i \in 1..Len(index) |->
        IF \E j \in 1..Len(g) : g[j].datetime = index[i]
        THEN g[CHOOSE j \in 1..Len(g) : g[j].datetime = index[i]]
        ELSE [c \in MetricColumns \cup {"datetime"} |->
                IF c = "datetime" THEN index[i] ELSE 0]]

(* df.reindex(index): one row per entry of index, the row of g that has    *)
(* this datetime, NaN in every column when g has none                      *)
reindex(g, index) ==
    [i \in 1..Len(index) |->
        IF \E j \in 1..Len(g) : g[j].datetime = index[i]
        THEN g[CHOOSE j \in 1..Len(g) : g[j].datetime = index[i]]
        ELSE [c \in MetricColumns \cup {"datetime"} |->
                IF c = "datetime" THEN index[i] ELSE NaN]]

(* df of one item: the series of the asset put on the grid, or a frame of  *)
(* the grid without columns when data_map has no (or an empty) series      *)
MachineFrame(dm, locno_upper, index) ==
    IF locno_upper \in DOMAIN dm /\ dm[locno_upper] # <<>>
    THEN [columns |-> MetricColumns, rows |-> reindex(dm[locno_upper], index)]
    ELSE [columns |-> {}, rows |-> [i \in 1..Len(index) |-> [datetime |-> index[i]]]]

(* the series of an item, none for a frame without columns *)
MachineSeriesIfData(frame) ==
    IF frame.columns = {} THEN <<>>
    ELSE [m \in 1..Len(structure) |->
            [i \in 1..Len(frame.rows) |-> frame.rows[i][structure[m][1]]]]

(* the series of an item in the reverse of the order of structure *)
MachineSeriesReversed(frame) ==
    [m \in 1..Len(structure) |->
        LET col == structure[Len(structure) + 1 - m][1]
        IN  IF col \in frame.columns
            THEN [i \in 1..Len(frame.rows) |-> frame.rows[i][col]]
            ELSE [i \in 1..Len(frame.rows) |-> None]]

(* the series appended to machine_dataframes for one item: the column of   *)
(* df, or None for every row when df does not have the column              *)
MachineSeries(frame) ==
    [m \in 1..Len(structure) |->
        IF structure[m][1] \in frame.columns
        THEN [i \in 1..Len(frame.rows) |-> frame.rows[i][structure[m][1]]]
        ELSE [i \in 1..Len(frame.rows) |-> None]]

(* the fetch of the machine list with a retry: after an exception the     *)
(* command asks again                                                      *)
FetchMachinesRetry(ok, api) ==
    /\ rpc = "api"
    /\ IF ~ok
       THEN UNCHANGED <<rpc, handleVars>>
       ELSE IF api = <<>>
       THEN /\ rpc' = "done"
            /\ UNCHANGED handleVars
       ELSE /\ api_data' = api
            /\ headers' = HeaderLabels
            /\ machine_dataframes' = <<>>
            /\ machine_no' = 0
            /\ rpc' = "items"
            /\ UNCHANGED <<df, full_report>>
    /\ UNCHANGED <<store, request, fetchVars>>

(* requests.get and response.json(); an exception, or an empty list, ends  *)
(* the command without a report                                            *)
FetchMachines(ok, api) ==
    /\ rpc = "api"
    /\ IF ~ok \/ api = <<>>
       THEN /\ rpc' = "done"
            /\ UNCHANGED handleVars
       ELSE /\ api_data' = api
            /\ headers' = HeaderLabels
            /\ machine_dataframes' = <<>>
            /\ machine_no' = 0
            /\ rpc' = "items"
            /\ UNCHANGED <<df, full_report>>
    /\ UNCHANGED <<store, request, fetchVars>>

(* one turn of the loop over api_data *)
AddMachine ==
    /\ rpc = "items"
    /\ machine_no < Len(api_data)
    /\ LET item == api_data[machine_no + 1]
           locno_upper == upper(strip(item.locno))
           frame == MachineFrame(data_map, locno_upper, master_index)
           n == Len(structure)
       IN  /\ df' = frame
           /\ headers' =
                [lat |-> headers.lat \o [m \in 1..n |-> item.latitude],
                 lon |-> headers.lon \o [m \in 1..n |-> item.longitude],
                 locno |-> headers.locno \o [m \in 1..n |-> item.locno],
                 mac |-> headers.mac \o [m \in 1..n |-> machine_label(machine_no)],
                 param |-> headers.param \o [m \in 1..n |-> structure[m][2]],
                 unit |-> headers.unit \o [m \in 1..n |-> structure[m][3]]]
           /\ machine_dataframes' = machine_dataframes \o MachineSeries(frame)
    /\ machine_no' = machine_no + 1
    /\ UNCHANGED <<store, rpc, request, fetchVars, api_data, full_report>>

(* the rest of handle: the six header rows, then one row per timestamp of  *)
(* the grid with the values of all series side by side                     *)
WriteReport ==
    /\ rpc = "items"
    /\ machine_no = Len(api_data)
    /\ IF machine_dataframes = <<>>
       THEN UNCHANGED full_report
       ELSE full_report' =
                <<headers.lat, headers.lon, headers.locno, headers.mac, headers.param,
                  headers.unit>>
                \o [i \in 1..Len(master_index) |->
                        <<strftime(master_index[i])>>
                        \o [m \in 1..Len(machine_dataframes) |-> machine_dataframes[m][i]]]
    /\ rpc' = "done"
    /\ UNCHANGED <<store, request, fetchVars, api_data, machine_no, df, headers,
                   machine_dataframes>>

(* a step of the report command: it leaves the ingestion variables alone *)
Report(A) == A /\ UNCHANGED <<ingestVars, rerunVars, twoVars, batchVars, sheetVars, scadaVars, apiVars>>

(* the requests of the model for the report: the day 2022-01-01 *)
ReportRequests == {DateRequest(2022, 1, 1)}

InitReport ==
    /\ InitIngestion
    /\ cmd = "report_othermakes"
    /\ once = <<>>
    /\ store2 = <<>>
    /\ rpc = "import"
    /\ request \in ReportRequests
    /\ InitReportVars
    /\ InitSheetVars
    /\ InitTwoVars
    /\ InitBatchVars
    /\ reached = FALSE

NextReport ==
    \/ \E n \in 1..Len(tables) : \E r \in SourceReadings(n) :
          Report(Imported(tables[n].name, r))
    \/ Report(FetchStart)
    \/ \E fails \in BOOLEAN : Report(FetchTable(fails))
    \/ \E ok \in BOOLEAN, api \in MachineLists : Report(FetchMachines(ok, api))
    \/ Report(AddMachine)
    \/ Report(WriteReport)

SpecReport == InitReport /\ [][NextReport]_vars

(* the requests of the model for the grid: every day, and the whole, of    *)
(* NumYears years from 2022 on                                             *)
NumYears == 3

GridRequests ==
    {YearRequest(y) : y \in 2022..(2022 + NumYears - 1)}
    \cup UNION {{DateRequest(y, m, d) : d \in 1..DaysInMonth(y, m)} :
                    y \in 2022..(2022 + NumYears - 1), m \in 1..12}

InitGrid ==
    /\ InitIngestion
    /\ cmd = "report_othermakes"
    /\ once = <<>>
    /\ store2 = <<>>
    /\ rpc = "import"
    /\ request \in GridRequests
    /\ InitReportVars
    /\ InitSheetVars
    /\ InitTwoVars
    /\ InitBatchVars
    /\ reached = FALSE

NextGrid == Report(FetchStart)

SpecGrid == InitGrid /\ [][NextGrid]_vars

(***************************************************************************)
(* report: handle                                                          *)
(***************************************************************************)
(* the command is called without --year and without --date *)
NoRequest == [year |-> None, date |-> <<>>]

(* start and end of handle: the year, or the day, up to the next midnight *)
scada_start(rq) ==
    IF rq.year # None THEN Timestamp(<<rq.year, 1, 1, 0, 0, 0>>)
    ELSE Timestamp(rq.date \o <<0, 0, 0>>)

scada_end(rq) ==
    IF rq.year # None THEN Timestamp(<<rq.year + 1, 1, 1, 0, 0, 0>>)
    ELSE scada_start(rq) + 86400

(* parameters: field, unit, display name (the units are the degree sign    *)
(* with and without C in the source)                                       *)
parameters ==
    <<<<"wind_speed", "m/s", "wind_speed">>,
      <<"outdoor_temp", "deg C", "outdoor_temp">>,
      <<"nacelle_pos", "deg", "wind_direction">>>>

(* a row of scada_data for asset a at instant ts *)
ScadaReading(a, ts, v) ==
    [locno |-> a, datetime |-> ts,
     outdoor_temp |-> 10 * v + 1, wind_speed |-> 10 * v + 2, nacelle_pos |-> 10 * v + 3,
     active_power |-> 10 * v + 4, frequency |-> 10 * v + 5]

(* the rows of the model: A1 at 00:00, the same asset spelled "A1 " at     *)
(* 00:00, A1 at 00:10 and A1 at 00:00 of the next day                      *)
ScadaReadings ==
    {ScadaReading(A1, 0, 1), ScadaReading(Append(A1, " "), 0, 2),
     ScadaReading(A1, 600, 3), ScadaReading(A1, 86400, 4)}

(* extraction has written the reading r (save_batch, one row) *)
ScadaImported(r) ==
    /\ cmd = "report"
    /\ spc = "idle"
    /\ Len(store["scada_data"]) < MaxStored
    /\ store' = [store EXCEPT !["scada_data"] = UpsertRow("scada_data", @, r)]
    /\ UNCHANGED <<request, scadaVars>>

(* filter(datetime__gte=start, datetime__lt=end) *)
queryset(rows, rq) ==
    {rows[i] : i \in {j \in 1..Len(rows) :
                        scada_start(rq) <= rows[j].datetime /\ rows[j].datetime < scada_end(rq)}}

(* data_map[record.datetime][loc] = record over the rows ordered by        *)
(* datetime: of the rows of one instant whose locno strip to the same loc  *)
(* the last one stays, and their order is the database's                   *)
DataMaps(q) ==
    LET keys == {<<r.datetime, strip(r.locno)>> : r \in q}
    IN  {m \in [keys -> q] :
            \A k \in keys : m[k].datetime = k[1] /\ strip(m[k].locno) = k[2]}

(* sorted(data_map.keys()) *)
RECURSIVE sorted(_)
sorted(S) ==
    IF S = {} THEN <<>>
    ELSE LET lo == CHOOSE x \in S : \A y \in S : x <= y
         IN  <<lo>> \o sorted(S \ {lo})

(* handle up to the fetch of the machine list: without arguments, or       *)
(* without a row in the range, the command ends                            *)
ScadaQuery ==
    /\ cmd = "report"
    /\ spc = "idle"
    /\ IF request = NoRequest \/ queryset(store["scada_data"], request) = {}
       THEN /\ spc' = "done"
            /\ UNCHANGED <<timestamps, scada_map>>
       ELSE LET q == queryset(store["scada_data"], request)
            IN  /\ \E m \in DataMaps(q) : scada_map' = m
                /\ timestamps' = sorted({r.datetime : r \in q})
                /\ spc' = "api"
    /\ UNCHANGED <<store, request, machines, workbook>>

(* machine_data[api_loc] = item for every item of machine_list *)
RECURSIVE machine_data(_, _)
machine_data(machine_list, map) ==
    IF machine_list = <<>> THEN map
    ELSE machine_data(Tail(machine_list),
                      DictSet(map, strip(Head(machine_list).locno), Head(machine_list)))

(* the machine lists of the model: none, the asset of the readings spelled *)
(* " A1", and B2 twice around it                                           *)
ScadaMachineLists ==
    {<<>>,
     <<Machine(<<" ", "A", "1">>, 11, 77)>>,
     <<Machine(B2, 12, 78), Machine(<<" ", "A", "1">>, 11, 77), Machine(B2, 13, 79)>>}

(* requests.get, raise_for_status and response.json(); an exception ends   *)
(* the command without a workbook                                          *)
ScadaFetchMachines(ok, machine_list) ==
    /\ spc = "api"
    /\ IF ~ok
       THEN /\ spc' = "done"
            /\ UNCHANGED machines
       ELSE /\ machines' = machine_data(machine_list, <<>>)
            /\ spc' = "write"
    /\ UNCHANGED <<store, request, timestamps, scada_map, workbook>>

(* ts.strftime("%Y-%m-%d %H:%M") *)
strftime_minutes(t) == SubSeq(strftime(t), 1, 5)

(* headers of handle, without "Datetime": the cell of row 7 is overwritten *)
(* by the first timestamp                                                  *)
ScadaLabels == <<"Latitude", "Longitude", "LocNo", "Machine", "Parameter", "Units">>

(* the rest of handle: six header rows, one row per timestamp, wb.save *)
ScadaWrite ==
    /\ spc = "write"
    /\ LET np == Len(parameters)
           width == np * Len(machines)
           machine(c) == machines[((c - 1) \div np) + 1]
           param(c) == parameters[((c - 1) % np) + 1]
           head(i, c) ==
               CASE i = 1 -> machine(c).col.latitude
                 [] i = 2 -> machine(c).col.longitude
                 [] i = 3 -> machine(c).locno
                 [] i = 4 -> machine(c).locno
                 [] i = 5 -> param(c)[3]
                 [] i = 6 -> param(c)[2]
           value(ts, c) ==
               IF <<ts, machine(c).locno>> \in DOMAIN scada_map
               THEN scada_map[<<ts, machine(c).locno>>][param(c)[1]]
               ELSE None
       IN  workbook' =
               [i \in 1..6 |-> <<ScadaLabels[i]>> \o [c \in 1..width |-> head(i, c)]]
               \o [i \in 1..Len(timestamps) |->
                      <<strftime_minutes(timestamps[i])>>
                      \o [c \in 1..width |-> value(timestamps[i], c)]]
    /\ spc' = "done"
    /\ UNCHANGED <<store, request, timestamps, scada_map, machines>>

(* a step of report: it leaves the other commands' variables alone *)
Scada(A) ==
    A /\ UNCHANGED <<ingestVars, rerunVars, twoVars, batchVars, sheetVars, rpc, fetchVars, handleVars, apiVars>>

(***************************************************************************)
(* Both reports: the call of the machine list, watched                     *)
(***************************************************************************)
(* the step A makes the call of requests.get, which succeeds or raises *)
Called(A, ok) ==
    /\ A
    /\ calls' = calls + 1
    /\ raised' = ~ok
    /\ UNCHANGED <<ingestVars, rerunVars, twoVars, batchVars, sheetVars>>

FetchRequests == {DateRequest(2022, 1, 1), YearRequest(2022), NoRequest}

InitFetch ==
    /\ InitIngestion
    /\ cmd \in {"report", "report_othermakes"}
    /\ once = <<>>
    /\ store2 = <<>>
    /\ rpc = IF cmd = "report_othermakes" THEN "import" ELSE "idle"
    /\ request \in IF cmd = "report" THEN FetchRequests ELSE ReportRequests
    /\ InitReportVars
    /\ InitSheetVars
    /\ InitTwoVars
    /\ InitBatchVars
    /\ reached = FALSE

NextFetch ==
    \/ \E n \in 1..Len(tables) : \E r \in SourceReadings(n) :
          Report(Imported(tables[n].name, r))
    \/ Report(FetchStart)
    \/ \E fails \in BOOLEAN : Report(FetchTable(fails))
    \/ \E ok \in BOOLEAN, api \in MachineLists :
          Called(FetchMachines(ok, api), ok) /\ UNCHANGED scadaVars
    \/ Report(AddMachine)
    \/ Report(WriteReport)
    \/ \E r \in ScadaReadings : Scada(ScadaImported(r))
    \/ Scada(ScadaQuery)
    \/ \E ok \in BOOLEAN, machine_list \in ScadaMachineLists :
          Called(ScadaFetchMachines(ok, machine_list), ok)
             /\ UNCHANGED <<rpc, fetchVars, handleVars>>
    \/ Scada(ScadaWrite)

SpecFetch == InitFetch /\ [][NextFetch]_vars

(***************************************************************************)
(* The rows of the input files, watched                                    *)
(***************************************************************************)
(* the step A reads one row: dt is what the command parses from the        *)
(* timestamp cell, keys are the keys of the readings the row stands for    *)
RowRead(A, dt, keys) ==
    /\ A
    /\ parsed' = dt
    /\ built' = IF dt = NaT THEN built ELSE built \cup keys
    /\ UNCHANGED <<sheet, header_row, skipped, rerunVars, twoVars, batchVars, reportVars>>

(* a step that reads no row *)
NoRowRead(A) ==
    /\ A
    /\ parsed' = NoRow
    /\ UNCHANGED <<sheet, header_row, skipped, built, rerunVars, twoVars, batchVars, reportVars>>

(* the keys of the readings of one row of a sheet of extraction *)
ExtractionKeys(row) ==
    LET recs == RowRecords(locno_map, replace_second_0(to_datetime(row.dt)), row.cells)
    IN  {KeyOf("scada_data", recs[k]) : k \in 1..Len(recs)}

InitRows ==
    /\ InitIngestion
    /\ cmd \in Commands
    /\ once = <<>>
    /\ store2 = <<>>
    /\ rpc = "idle"
    /\ request = <<>>
    /\ InitReportVars
    /\ InitSheetVars
    /\ InitTwoVars
    /\ InitBatchVars
    /\ reached = FALSE

(* one run of a command over MaxFiles files *)
NextRows ==
    \/ nruns = 0 /\ NoRowRead(StartRun(MaxFiles))
    \/ NoRowRead(EndRun)
    \/ \E nsheets \in 0..MaxSheets : NoRowRead(ExtractionOpenFile(nsheets))
    \/ \E name \in SheetNames, firstCol \in FirstCols, rest \in HeaderRests, n \in 0..MaxRows :
          NoRowRead(ExtractionSheet(name, firstCol, rest, n))
    \/ \E row \in ExtractionRawRows, err \in BOOLEAN :
          RowRead(ExtractionRow(row, err), to_datetime(row.dt), ExtractionKeys(row))
    \/ NoRowRead(ExtractionSheetError)
    \/ \E err \in BOOLEAN : NoRowRead(ExtractionEndFile(err))
    \/ \E ncols \in {6, 7}, n \in 1..MaxRows : NoRowRead(EnerconOpenFile(ncols, n))
    \/ \E row \in EnerconRawRows, errAt \in 0..batch_size_enercon :
          RowRead(EnerconRow(row, errAt), to_datetime_dmy(row.date),
                  {<<row.asset_name, to_datetime_dmy(row.date)>>})
    \/ \E errAt \in 0..batch_size_enercon : NoRowRead(EnerconChunkEnd(errAt))
    \/ \E ncols \in {6, 7}, n \in 1..MaxRows : NoRowRead(GtmwOpenFile(ncols, n))
    \/ \E row \in GtmwRawRows :
          RowRead(GtmwRow(row), to_datetime(row.time_only),
                  {<<row.device, to_datetime(row.time_only)>>})
    \/ \E errAt \in 0..batch_size_gtmw : NoRowRead(GtmwBatch(errAt))
    \/ NoRowRead(GtmwEndFile)
    \/ \E header \in InhouseHeaders, n \in 1..MaxRows :
          NoRowRead(InhouseOpenFile(header, n))
    \/ \E row \in InhouseRawRows :
          RowRead(InhouseRow(row), to_datetime_dmy(row["date"]),
                  {<<to_datetime_dmy(row["date"]), row["asset name"]>>})
    \/ \E errAt \in 0..MaxRows : NoRowRead(InhouseWrite(errAt))

SpecRows == InitRows /\ [][NextRows]_vars

(***************************************************************************)
(* Two runs that write one table at the same time                          *)
(*                                                                         *)
(* Each page of execute_values is one INSERT ... ON CONFLICT DO UPDATE     *)
(* statement, committed on its own.  The database works through the rows   *)
(* of a statement in their order; a row inserted or updated stays locked   *)
(* until its statement ends, and a statement that comes to a key locked by *)
(* the statement of the other run waits.  The rows of a statement take     *)
(* effect together when it commits.  When each of the two statements waits *)
(* for the other the database ends one of them with an error (deadlock     *)
(* detected), and either can be the one.  The error of a statement leaves  *)
(* the try block of the file, so the statements left of the file are not   *)
(* sent.                                                                   *)
(***************************************************************************)
Runs == {1, 2}

(* rows in the file of each of the two runs *)
MaxRunRows == 3

Other(p) == 3 - p

(* recs cut into slices of n records: range(0, len(recs), n) *)
RECURSIVE Slices(_, _)
Slices(recs, n) ==
    IF recs = <<>> THEN <<>>
    ELSE LET m == IF Len(recs) < n THEN Len(recs) ELSE n
         IN  <<SubSeq(recs, 1, m)>> \o Slices(SubSeq(recs, m + 1, Len(recs)), n)

RECURSIVE Concat(_)
Concat(ss) == IF ss = <<>> THEN <<>> ELSE Head(ss) \o Concat(Tail(ss))

(* the statements a run of command c sends for the records of a file:      *)
(* import_gtmw calls bulk_upsert per batch, and execute_values cuts every  *)
(* call into pages                                                         *)
Statements(c, recs) ==
    IF c = "import_gtmw"
    THEN LET batches == Slices(recs, batch_size_gtmw)
         IN  Concat([b \in 1..Len(batches) |-> Slices(batches[b], page_size_gtmw)])
    ELSE Slices(recs, page_size_inhouse)

(* the readings of the file of run p: asset A1 at three instants, with the *)
(* values 10p+1 .. 10p+4 that tell the run                                 *)
RunReadings(c, p) == {Reading(TableOf[c], A1, ts, p) : ts \in {0, 600, 1200}}

(* the files of the model: up to MaxRunRows readings *)
RunFiles(c, p) == UNION {[1..n -> RunReadings(c, p)] : n \in 0..MaxRunRows}

(* the statement of run p in progress, the keys it holds locked and the    *)
(* key of the row it comes to next                                         *)
InProgress(p) == queue[p] # <<>> /\ pos[p] < Len(queue[p][1])
Locked(p) ==
    IF queue[p] = <<>> THEN {}
    ELSE {KeyOf(TableOf[cmd], queue[p][1][i]) : i \in 1..pos[p]}
NextKey(p) == KeyOf(TableOf[cmd], queue[p][1][pos[p] + 1])

(* the statement of run p ends with an error: the except clause of the     *)
(* file is entered                                                         *)
Raise(p) ==
    /\ queue' = [queue EXCEPT ![p] = <<>>]
    /\ pos' = [pos EXCEPT ![p] = 0]

(* the statement of run p does its next row; a second row of the same key  *)
(* in one statement is an error                                            *)
StatementRow(p) ==
    /\ InProgress(p)
    /\ NextKey(p) \notin Locked(Other(p))
    /\ IF NextKey(p) \in Locked(p)
       THEN Raise(p)
       ELSE /\ pos' = [pos EXCEPT ![p] = @ + 1]
            /\ UNCHANGED queue
    /\ UNCHANGED <<store, inputs>>

(* the statement of run p has done all its rows and commits *)
StatementCommit(p) ==
    /\ queue[p] # <<>>
    /\ pos[p] = Len(queue[p][1])
    /\ store' = [store EXCEPT ![TableOf[cmd]] = UpsertAll(TableOf[cmd], @, queue[p][1])]
    /\ queue' = [queue EXCEPT ![p] = Tail(@)]
    /\ pos' = [pos EXCEPT ![p] = 0]
    /\ UNCHANGED inputs

(* each statement waits for a key the other holds: the database ends the   *)
(* statement of run p                                                      *)
Deadlock(p) ==
    /\ \A q \in Runs : InProgress(q) /\ NextKey(q) \in Locked(Other(q))
    /\ Raise(p)
    /\ UNCHANGED <<store, inputs>>

(* a step of one of the two runs *)
Two(A) == A /\ UNCHANGED <<ingestVars, rerunVars, reportVars, sheetVars, batchVars>>

InitTwo ==
    /\ InitIngestion
    /\ cmd \in {"import_gtmw", "import_inhouse"}
    /\ once = <<>>
    /\ store2 = <<>>
    /\ reached = FALSE
    /\ rpc = "idle"
    /\ request = <<>>
    /\ InitReportVars
    /\ InitSheetVars
    /\ InitBatchVars
    /\ \E a \in RunFiles(cmd, 1), b \in RunFiles(cmd, 2) : inputs = <<a, b>>
    /\ queue = [p \in Runs |-> Statements(cmd, inputs[p])]
    /\ pos = [p \in Runs |-> 0]

NextTwo ==
    \/ \E p \in Runs : Two(StatementRow(p))
    \/ \E p \in Runs : Two(StatementCommit(p))
    \/ \E p \in Runs : Two(Deadlock(p))

SpecTwo == InitTwo /\ [][NextTwo]_vars

(***************************************************************************)
(* import_enercon_scada followed by report_othermakes                      *)
(***************************************************************************)
(* a step of an import, with the record of what it built and wrote: the    *)
(* readings that the step added to the buffer (or to the batch it wrote),  *)
(* and the batch of the call of the store writer, if the step made one;    *)
(* the record starts again with every run and with every file opened      *)
Logged(A) ==
    /\ A
    /\ LET after == IF lastWrite' # NoWrite THEN lastWrite'.recs ELSE records'
       IN  readings' = IF opened' > opened \/ nruns' > nruns THEN <<>>
                       ELSE readings \o SubSeq(after, Len(records) + 1, Len(after))
    /\ handed' = IF opened' > opened \/ nruns' > nruns THEN <<>>
                 ELSE IF lastWrite' = NoWrite THEN handed
                 ELSE Append(handed, lastWrite'.recs)
    /\ UNCHANGED <<rerunVars, twoVars, reportVars, sheetVars>>

(* the rows of the Enercon file of the model: asset A1 at 00:00, 00:10 and *)
(* 23:50 of 2022-01-01, each with one of two sets of metric values         *)
GridInstants == {0, freq, 143 * freq}

GridRows ==
    {[Reading("scada_data_enercon", A1, 0, v) EXCEPT !.date = DateCell("dmy", ts)] :
        ts \in GridInstants, v \in 1..2}

(* the report starts when the import has ended *)
AfterImport(A) == pc = "done" /\ Report(A)

InitEndToEnd ==
    /\ InitIngestion
    /\ cmd = "import_enercon_scada"
    /\ once = <<>>
    /\ store2 = <<>>
    /\ rpc = "import"
    /\ request \in ReportRequests
    /\ InitReportVars
    /\ InitSheetVars
    /\ InitTwoVars
    /\ InitBatchVars
    /\ reached = FALSE

NextEndToEnd ==
    \/ nruns = 0 /\ Logged(StartRun(1))
    \/ \E n \in 1..MaxRows : Logged(EnerconOpenFile(6, n))
    \/ \E row \in GridRows : Logged(EnerconRow(row, 0))
    \/ Logged(EnerconChunkEnd(0))
    \/ Logged(EndRun)
    \/ AfterImport(FetchStart)
    \/ AfterImport(FetchTable(FALSE))
    \/ \E api \in MachineLists : AfterImport(FetchMachines(TRUE, api))
    \/ AfterImport(AddMachine)
    \/ AfterImport(WriteReport)

SpecEndToEnd == InitEndToEnd /\ [][NextEndToEnd]_vars

(***************************************************************************)
(* The batches of extraction, import_enercon_scada and import_gtmw         *)
(***************************************************************************)
(* one run of one of the three commands *)
InitBatches ==
    /\ InitIngestion
    /\ cmd \in {"extraction", "import_enercon_scada", "import_gtmw"}
    /\ once = <<>>
    /\ store2 = <<>>
    /\ rpc = "idle"
    /\ request = <<>>
    /\ InitReportVars
    /\ InitSheetVars
    /\ InitTwoVars
    /\ InitBatchVars
    /\ reached = FALSE

NextBatches ==
    \/ \E n \in 0..MaxFiles : nruns = 0 /\ Logged(StartRun(n))
    \/ Logged(EndRun)
    \/ \E nsheets \in 0..MaxSheets : Logged(ExtractionOpenFile(nsheets))
    \/ \E name \in SheetNames, firstCol \in FirstCols, rest \in HeaderRests, n \in 0..MaxRows :
          Logged(ExtractionSheet(name, firstCol, rest, n))
    \/ \E row \in ExtractionRawRows, err \in BOOLEAN : Logged(ExtractionRow(row, err))
    \/ Logged(ExtractionSheetError)
    \/ \E err \in BOOLEAN : Logged(ExtractionEndFile(err))
    \/ \E ncols \in {6, 7}, n \in 1..MaxRows : Logged(EnerconOpenFile(ncols, n))
    \/ \E row \in EnerconRawRows, errAt \in 0..batch_size_enercon :
          Logged(EnerconRow(row, errAt))
    \/ \E errAt \in 0..batch_size_enercon : Logged(EnerconChunkEnd(errAt))
    \/ \E ncols \in {6, 7}, n \in 1..MaxRows : Logged(GtmwOpenFile(ncols, n))
    \/ \E row \in GtmwRawRows : Logged(GtmwRow(row))
    \/ \E errAt \in 0..batch_size_gtmw : Logged(GtmwBatch(errAt))
    \/ Logged(GtmwEndFile)

SpecBatches == InitBatches /\ [][NextBatches]_vars

(***************************************************************************)
(* Properties of the ingestion commands                                    *)
(***************************************************************************)
Rows(t) == {store[t][i] : i \in 1..Len(store[t])}

RowsWithKey(t, k) == {i \in 1..Len(store[t]) : KeyOf(t, store[t][i]) = k}

(* a step changes no table but the one of its command *)
OwnTableOnly ==
    [][\A t \in Tables : store'[t] # store[t] => t = TableOf[cmd]]_vars

(* the timestamp of a stored row *)
StoredTime(t, r) ==
    r[CASE t = "scada_data" -> "datetime"
        [] t = "inhouse_scada_data" -> "timestamp"
        [] OTHER -> "date"]

(* C1: after any sequence of ingestion runs, failed batch writes included, *)
(* no table holds two rows with the same (timestamp, asset) pair.          *)
C1_KeyUniqueness ==
    \A t \in Tables : \A i, j \in 1..Len(store[t]) :
        KeyOf(t, store[t][i]) = KeyOf(t, store[t][j]) => i = j

(* a second run has written again to a table of two rows, after a failure *)
C1_Witness ==
    /\ nruns = 2
    /\ pc = "done"
    /\ \E t \in Tables : Len(store[t]) = 2
    /\ writeFailed

(* C2: running the ingestion of a file twice in succession leaves the      *)
(* target table with the same rows (keys, metric values, no duplicate) as  *)
(* running it once: when the first run has left the table as once, the     *)
(* table after the second run is once too.                                 *)
C2_RerunSameAsOnce ==
    pc \in {"done", "crashed"} =>
        /\ store[TableOf[cmd]] \in Contents(TableOf[cmd])
        /\ store[TableOf[cmd]] = once => store2 = once

(* both runs of a file have ended, and the file left two rows *)
C2_Witness ==
    /\ pc = "done"
    /\ Len(once) = 2
    /\ store[TableOf[cmd]] = once
    /\ store2 = once

(* the last reading of recs that carries key k *)
LastWithKey(t, recs, k) ==
    recs[CHOOSE i \in 1..Len(recs) :
            /\ KeyOf(t, recs[i]) = k
            /\ \A j \in (i + 1)..Len(recs) : KeyOf(t, recs[j]) # k]

(* C3: a sequence of readings written to a table, a key occurring more     *)
(* than once included, leaves for every key of the sequence exactly one    *)
(* stored row, holding the metrics of the last reading with this key.      *)
C3_LastReadingWins ==
    LET t == lastWrite.t
        recs == lastWrite.recs
    IN  (/\ t # "none"
         /\ ~lastWrite.err
         /\ \A i \in 1..Len(recs) : ~BadFloat(t, recs[i]))
        => \A i \in 1..Len(recs) :
              LET k == KeyOf(t, recs[i])
              IN  /\ Cardinality(RowsWithKey(t, k)) = 1
                  /\ \A j \in RowsWithKey(t, k) : store[t][j] = LastWithKey(t, recs, k)

(* C4: when the store write of a batch fails, the failure is caught and    *)
(* every later batch of the run is still submitted.                        *)
C4_FailureDoesNotAbort == writeFailed => (pc # "crashed" /\ unsent = 0)

(* C5: every stored timestamp has its seconds equal to zero. *)
C5_StoredTimesTruncated ==
    \A t \in Tables : \A r \in Rows(t) : StoredTime(t, r) % 60 = 0

(***************************************************************************)
(* Properties of the report command                                        *)
(***************************************************************************)
(* what the query of entry n of tables returns on the store *)
QueryResult(n) ==
    fetch_data(tables[n], store[tables[n].name], Timestamp(start_dt(request)),
               Timestamp(end_dt(request)))

(* the rows of the result d for key k at instant ts, by position *)
Holding(d, k, ts) == {j \in 1..Len(d) : d[j].locno_key = k /\ d[j].datetime = ts}

(* the values of a row of a query result *)
ValuesOf(r) == [c \in DOMAIN r \ {"locno_key"} |-> r[c]]

Least(S) == CHOOSE x \in S : \A y \in S : x <= y

(* C6: when the tables have all been read, every asset and timestamp that  *)
(* some table returned is in the series of the asset, with the values of a *)
(* row of the first table, in the order inhouse_scada_data, gtmw,          *)
(* scada_data_enercon, that returned this asset and timestamp.             *)
C6_FirstSourceWins ==
    rpc = "api" =>
        \A n \in 1..Len(tables) :
            tables[n].name \in fetched =>
                \A i \in 1..Len(QueryResult(n)) :
                    LET k == QueryResult(n)[i].locno_key
                        ts == QueryResult(n)[i].datetime
                        first == Least({m \in 1..Len(tables) :
                                            /\ tables[m].name \in fetched
                                            /\ Holding(QueryResult(m), k, ts) # {}})
                    IN  /\ k \in DOMAIN data_map
                        /\ \E x \in 1..Len(data_map[k]) :
                              /\ data_map[k][x].datetime = ts
                              /\ \E j \in Holding(QueryResult(first), k, ts) :
                                    data_map[k][x] = ValuesOf(QueryResult(first)[j])

(* C7: right after a table was read, the series of each asset it returned  *)
(* has strictly increasing timestamps, one row for each timestamp returned *)
(* for the asset, and that row is the first one of the query result with   *)
(* this asset and timestamp.                                               *)
C7_FirstOfQueryKept ==
    (rpc \in {"tables", "api"} /\ tableNo > 1 /\ tables[tableNo - 1].name \in fetched) =>
        LET d == QueryResult(tableNo - 1)
        IN  \A k \in LocnoKeys(d) :
                /\ k \in DOMAIN data_map
                /\ LET g == data_map[k]
                   IN  /\ \A i \in 1..(Len(g) - 1) : g[i].datetime < g[i + 1].datetime
                       /\ \A j \in 1..Len(d) :
                             d[j].locno_key = k =>
                                Cardinality({i \in 1..Len(g) :
                                                g[i].datetime = d[j].datetime}) = 1
                       /\ \A i \in 1..Len(g) :
                             /\ Holding(d, k, g[i].datetime) # {}
                             /\ g[i] = ValuesOf(d[Least(Holding(d, k, g[i].datetime))])

(* C8: the frame of an item whose asset has a series has one row per       *)
(* timestamp of the grid, in the order of the grid; the row has the values *)
(* of the row of the series at this timestamp, or a null in every metric   *)
(* when the series has none; a row of the series off the grid is not in it.*)
C8_ReindexedOntoGrid ==
    (rpc = "items" /\ machine_no > 0
        /\ upper(strip(api_data[machine_no].locno)) \in DOMAIN data_map) =>
        LET g == data_map[upper(strip(api_data[machine_no].locno))]
            grid == {master_index[i] : i \in 1..Len(master_index)}
        IN  /\ Len(df.rows) = Len(master_index)
            /\ \A i \in 1..Len(master_index) :
                  /\ df.rows[i].datetime = master_index[i]
                  /\ IF \E j \in 1..Len(g) : g[j].datetime = master_index[i]
                     THEN \E j \in 1..Len(g) : df.rows[i] = g[j]
                     ELSE \A c \in MetricColumns : IsNull(df.rows[i][c])
            /\ \A j \in 1..Len(g) :
                  g[j].datetime \notin grid =>
                     \A i \in 1..Len(df.rows) : df.rows[i].datetime # g[j].datetime

(* an item of the grid with a row of the series, and a row off the grid *)
C8_Witness ==
    /\ rpc = "items"
    /\ machine_no > 0
    /\ upper(strip(api_data[machine_no].locno)) \in DOMAIN data_map
    /\ LET g == data_map[upper(strip(api_data[machine_no].locno))]
       IN  /\ \E j \in 1..Len(g) : g[j].datetime = 0
           /\ \E j \in 1..Len(g) : g[j].datetime = 300
    /\ df.rows[1].temperature_outside_nacelle > 0
    /\ IsNull(df.rows[2].temperature_outside_nacelle)

(* the item has no row in any source table for the requested range *)
NoSourceRow(item) ==
    \A n \in 1..Len(tables) :
        upper(strip(item.locno)) \notin LocnoKeys(QueryResult(n))

(* C9: in the report written, an item of the machine list without a row in *)
(* any source table for the range has its three columns, headed by its     *)
(* locno, and every one of the rows of the grid has a null in each of them.*)
C9_MissingAssetAllNull ==
    (rpc = "done" /\ full_report # <<>>) =>
        /\ Len(full_report) = 6 + Len(master_index)
        /\ \A p \in 1..Len(api_data) :
              NoSourceRow(api_data[p]) =>
                 \A m \in 1..Len(structure) :
                    LET col == 1 + Len(structure) * (p - 1) + m
                    IN  /\ Len(full_report[3]) >= col
                        /\ full_report[3][col] = api_data[p].locno
                        /\ full_report[5][col] = structure[m][2]
                        /\ \A i \in 1..Len(master_index) :
                              /\ Len(full_report[6 + i]) >= col
                              /\ IsNull(full_report[6 + i][col])

(* a report of an asset without rows followed by an asset with a row *)
C9_Witness ==
    /\ rpc = "done"
    /\ full_report # <<>>
    /\ Len(api_data) = 2
    /\ NoSourceRow(api_data[1])
    /\ ~NoSourceRow(api_data[2])
    /\ full_report[7][5] = 113

(***************************************************************************)
(* Properties of the time grid                                             *)
(***************************************************************************)
(* 00:00:00 of the day d of month m of year y *)
Midnight(y, m, d) == 86400 * (DaysBeforeYear(y) + DaysBeforeMonth(y, m) + d - 1)

(* C10: the grid of a day has 144 timestamps, the first one midnight of    *)
(* the day, each 10 minutes after the one before, all before the next      *)
(* midnight; the grid of a year has 144 timestamps for each of its days,   *)
(* from 1 January 00:00, each 10 minutes after the one before, all before  *)
(* 1 January of the next year.                                             *)
C10_GridOfRequest ==
    rpc = "tables" =>
        LET n == Len(master_index)
            first == IF request.year # None
                     THEN Midnight(request.year, 1, 1)
                     ELSE Midnight(request.date[1], request.date[2], request.date[3])
            limit == IF request.year # None
                     THEN Midnight(request.year + 1, 1, 1)
                     ELSE first + 86400
            days == IF request.year # None THEN DaysInYear(request.year) ELSE 1
        IN  /\ n = 144 * days
            /\ master_index[1] = first
            /\ \A i \in 1..(n - 1) : master_index[i + 1] = master_index[i] + 600
            /\ \A i \in 1..n : master_index[i] < limit

(* the grid of the leap year 2024 *)
C10_Witness ==
    /\ rpc = "tables"
    /\ request.year = 2024
    /\ Len(master_index) = 144 * 366
    /\ strftime(master_index[Len(master_index)]) = <<2024, 12, 31, 23, 50, 0>>

(***************************************************************************)
(* Properties of the sheets of extraction                                  *)
(***************************************************************************)
(* the cell has the text LOCAL, whatever the case of its letters *)
HasMarker(cell) ==
    \E off \in 0..(Len(cell) - 5) :
        \A k \in 1..5 : UpperChar(cell[off + k]) = <<"L", "O", "C", "A", "L">>[k]

(* C11: header_row of a sheet read is the smallest zero-based index, among *)
(* the first 10 rows, of a row whose first cell has the marker "local" in  *)
(* any case; it is None exactly when no row of the first 10 has one.       *)
C11_HeaderDetection ==
    (sheetsLeft = 0 /\ lower(sheet.name) # Legend) =>
        LET last == IF Len(sheet.firstCol) < 10 THEN Len(sheet.firstCol) ELSE 10
            marked == {i \in 0..(last - 1) : HasMarker(sheet.firstCol[i + 1])}
        IN  /\ header_row = None <=> marked = {}
            /\ header_row # None =>
                  /\ header_row \in marked
                  /\ \A i \in marked : header_row <= i

(* rows 0 to 2 hold unrelated text, row 3 starts with the marker: 3 *)
C11_Witness ==
    /\ sheetsLeft = 0
    /\ lower(sheet.name) # Legend
    /\ Len(sheet.firstCol) > 4
    /\ \A i \in 1..3 : sheet.firstCol[i] = Title
    /\ sheet.firstCol[4] = LocalTime
    /\ header_row = 3

(* the columns of the sheet read: the header cell of the first column and  *)
(* the headers after it                                                    *)
SheetColumns == <<sheet.firstCol[header_row + 1]>> \o sheet.rest

(* the k of the blocks 5k+1 .. 5k+5 that fit in n columns *)
Strides(n) == {k \in 0..n : 5 * k + 5 < n}

(* the tokens of the header of the zero-based column j *)
TokensOf(j) == split(SheetColumns[j + 1])

(* locno_map maps the asset e to the block of stride k, its five columns   *)
(* in the order temperature, wind speed, nacelle position, active power,   *)
(* frequency: the reading of a row whose cell of column j is j shows it    *)
MapsBlock(e, k) ==
    /\ locno_map[e].col = 5 * k + 1
    /\ Len(TokensOf(5 * k + 1)) >= 2
    /\ locno_map[e].locno = TokensOf(5 * k + 1)[2]
    /\ LET rec == RowRecords(locno_map, 0, [j \in 1..(Len(SheetColumns) - 1) |-> j])[e]
       IN  /\ rec.outdoor_temp = 5 * k + 1
           /\ rec.wind_speed = 5 * k + 2
           /\ rec.nacelle_pos = 5 * k + 3
           /\ rec.active_power = 5 * k + 4
           /\ rec.frequency = 5 * k + 5

(* C12 as stated: every block 5k+1 .. 5k+5 with 5k+5 < n is mapped to the  *)
(* asset named by the second token of the header of column 5k+1, and       *)
(* nothing else is mapped.                                                 *)
C12_FixedStrides ==
    (pc = "rows" /\ sheetsLeft = 0) =>
        /\ \A e \in 1..Len(locno_map) :
              \E k \in Strides(Len(SheetColumns)) : MapsBlock(e, k)
        /\ \A k \in Strides(Len(SheetColumns)) :
              \E e \in 1..Len(locno_map) : MapsBlock(e, k)

(* the header of the first column of every block has two tokens at least *)
TwoTokens == \A k \in Strides(Len(SheetColumns)) : Len(TokensOf(5 * k + 1)) >= 2

(* C12, amended: when the header of column 5k+1 has two tokens at least    *)
(* for every k with 5k+5 < n, every entry of locno_map maps a block        *)
(* 5k+1 .. 5k+5 with 5k+5 < n to the asset named by the second token of    *)
(* the header of column 5k+1, in the order temperature, wind speed,        *)
(* nacelle position, active power, frequency; every such asset has one     *)
(* entry, for the last block that names it; no other column is mapped.     *)
C12_FixedStridesOfNamedBlocks ==
    (pc = "rows" /\ sheetsLeft = 0 /\ TwoTokens) =>
        /\ \A e \in 1..Len(locno_map) :
              \E k \in Strides(Len(SheetColumns)) :
                 /\ MapsBlock(e, k)
                 /\ \A k2 \in Strides(Len(SheetColumns)) :
                       TokensOf(5 * k2 + 1)[2] = locno_map[e].locno => k2 <= k
        /\ \A k \in Strides(Len(SheetColumns)) :
              \E e \in 1..Len(locno_map) : locno_map[e].locno = TokensOf(5 * k + 1)[2]
        /\ \A e1, e2 \in 1..Len(locno_map) :
              locno_map[e1].locno = locno_map[e2].locno => e1 = e2

(* two blocks and one column left over *)
C12_Witness ==
    /\ pc = "rows"
    /\ sheetsLeft = 0
    /\ TwoTokens
    /\ Len(SheetColumns) = 12
    /\ Len(locno_map) = 2
    /\ locno_map[2] = [locno |-> B2, col |-> 6]

(* C13: a step that passes over a sheet, because it is named legend or no  *)
(* header row is found in it, leaves the store and the batch as they are   *)
(* and goes on with the next sheet of the workbook; and a run that ends    *)
(* without a failed write has stored a row for every reading it built      *)
(* from the other sheets of its files.                                     *)
C13_SkippedSheetIsolated ==
    /\ [][skipped' = skipped + 1 =>
            /\ store' = store
            /\ records' = records
            /\ built' = built
            /\ pc' = "sheets"
            /\ sheetsLeft' = sheetsLeft - 1
            /\ filesLeft' = filesLeft]_vars
    /\ [](pc = "done" /\ ~writeFailed =>
            \A k \in built : HasKey("scada_data", store["scada_data"], k))

(* a run that passed over a sheet, then read a sheet of readings, and      *)
(* stored them                                                             *)
C13_Witness ==
    /\ pc = "done"
    /\ nruns = 1
    /\ skipped > 0
    /\ ~writeFailed
    /\ lower(sheet.name) # Legend
    /\ header_row # None
    /\ built # {}
    /\ \A k \in built : HasKey("scada_data", store["scada_data"], k)

(***************************************************************************)
(* Properties of the layout of the report                                  *)
(***************************************************************************)
(* the value the report is to show for the item, the column and the grid   *)
(* timestamp: the one of the series of the asset, if it has this timestamp *)
ShownValue(item, col, ts, v) ==
    LET k == upper(strip(item.locno))
    IN  IF k \in DOMAIN data_map /\ (\E j \in 1..Len(data_map[k]) : data_map[k][j].datetime = ts)
        THEN \E j \in 1..Len(data_map[k]) :
                data_map[k][j].datetime = ts /\ data_map[k][j][col] = v
        ELSE IsNull(v)

(* C14: the report written has 6 header rows (latitude, longitude, locno,  *)
(* machine label, parameter name, unit), then one row per timestamp of the *)
(* grid, in the order of the grid; with M = 3 metrics, the cell after the  *)
(* first 1 + a*M + m cells of every row belongs to item a of the machine   *)
(* list, in the order of the list, and to metric m of structure (a and m   *)
(* counted from 0): the layout is a function of the machine list alone.    *)
C14_ReportLayout ==
    (rpc = "done" /\ full_report # <<>>) =>
        LET M == Len(structure)
            width == 1 + M * Len(api_data)
        IN  /\ Len(full_report) = 6 + Len(master_index)
            /\ \A h \in 1..Len(full_report) : Len(full_report[h]) = width
            /\ <<full_report[1][1], full_report[2][1], full_report[3][1], full_report[4][1],
                 full_report[5][1], full_report[6][1]>>
               = <<"DateTime / Latitude", "Longitude", "Loc No", "Mac No", "Parameters",
                   "Units">>
            /\ \A a \in 0..(Len(api_data) - 1), m \in 0..(M - 1) :
                  LET c == 1 + (1 + a * M + m)
                      item == api_data[a + 1]
                  IN  /\ full_report[1][c] = item.latitude
                      /\ full_report[2][c] = item.longitude
                      /\ full_report[3][c] = item.locno
                      /\ full_report[4][c] = <<"M_", a>>
                      /\ full_report[5][c] = structure[m + 1][2]
                      /\ full_report[6][c] = structure[m + 1][3]
                      /\ \A i \in 1..Len(master_index) :
                            ShownValue(item, structure[m + 1][1], master_index[i],
                                       full_report[6 + i][c])
            /\ \A i \in 1..Len(master_index) :
                  full_report[6 + i][1] = strftime(master_index[i])

(* a report of two items, the second with a reading at 00:00:00 *)
C14_Witness ==
    /\ rpc = "done"
    /\ full_report # <<>>
    /\ Len(api_data) = 2
    /\ Len(full_report) = 150
    /\ full_report[7][1] = <<2022, 1, 1, 0, 0, 0>>
    /\ full_report[150][1] = <<2022, 1, 1, 23, 50, 0>>
    /\ ~IsNull(full_report[7][5])
    /\ ~IsNull(full_report[7][6])
    /\ full_report[7][6] = full_report[7][5] - 1


(***************************************************************************)
(* Properties of the handling of bad input                                 *)
(***************************************************************************)
Imports == {"import_enercon_scada", "import_gtmw", "import_inhouse"}

(* an import command opens a file and finds that its columns are not the   *)
(* ones it expects: it does not go on to read the rows of the file         *)
LayoutRejected ==
    /\ cmd \in Imports
    /\ pc = "files"
    /\ opened' = opened + 1
    /\ pc' # "rows"

(* C15: in every import command, a file whose column layout does not match *)
(* the expected one writes no row, and the run goes on to the next file.   *)
C15_BadLayoutSkipsFile ==
    [][LayoutRejected => /\ store' = store
                         /\ pc' = "files"
                         /\ filesLeft' = filesLeft - 1]_vars


(***************************************************************************)
(* Properties of the fetch of the machine list                             *)
(***************************************************************************)
(* the run of the report command has ended *)
ReportEnded == IF cmd = "report" THEN spc = "done" ELSE rpc = "done"

(* the report command has written its file *)
ReportFileWritten == workbook # <<>> \/ full_report # <<>>

(* C16: in both report commands, when the fetch of the machine list fails  *)
(* the run ends without a report file and without a second attempt; the    *)
(* service is called at most once in a run.                                *)
C16_FailedFetchEndsRun ==
    /\ calls <= 1
    /\ raised => calls = 1 /\ ReportEnded /\ ~ReportFileWritten

C16_Witness ==
    /\ cmd = "report"
    /\ raised
    /\ calls = 1
    /\ spc = "done"
    /\ timestamps # <<>>
    /\ workbook = <<>>


(* C17: in every ingestion path, a row whose timestamp cell is null or     *)
(* cannot be parsed produces no reading, does not stop the rows after it,  *)
(* and the rows of the file whose timestamp parses are still written.      *)
C17_BadTimestampRowDropped ==
    /\ [][parsed' = NaT => /\ records' = records
                           /\ store' = store
                           /\ writeFailed' = writeFailed
                           /\ rowsLeft' = rowsLeft - 1
                           /\ pc' # "crashed"
                           /\ filesLeft' = filesLeft]_vars
    /\ [](pc = "done" /\ ~writeFailed =>
             \A k \in built : HasKey(TableOf[cmd], store[TableOf[cmd]], k))

C17_Witness ==
    /\ cmd = "import_gtmw"
    /\ pc = "rows"
    /\ parsed = NaT
    /\ Len(records) = 1
    /\ rowsLeft = 1
    /\ built = {<<A1, 0>>}


(* a record of a batch with a metric that is not a number *)
Uncoerced(t, r) == \E f \in float_fields[t] : ~IsNumber(r[f])

(* C18: a metric cell that cannot be coerced to a number is stored as 0 by *)
(* extraction and as null by the Enercon, GTMW and Inhouse imports, and    *)
(* the reading is still written with its other metrics.                    *)
C18_UncoercibleCellDefault ==
    /\ \A r \in Rows("scada_data") : \A f \in float_fields["scada_data"] : IsNumber(r[f])
    /\ \A t \in Tables \ {"scada_data"} : \A r \in Rows(t) : \A f \in float_fields[t] :
          IsNumber(r[f]) \/ r[f] = NULL
    /\ (lastWrite.t # "none" /\ ~lastWrite.err /\ ~DuplicateKeys(lastWrite.t, lastWrite.recs))
          => \A i \in 1..Len(lastWrite.recs) :
                Uncoerced(lastWrite.t, lastWrite.recs[i])
                   => HasKey(lastWrite.t, store[lastWrite.t],
                             KeyOf(lastWrite.t, lastWrite.recs[i]))


(***************************************************************************)
(* Properties of the re-run after an interruption                          *)
(***************************************************************************)
(* the run started again from what the interruption left ends with the     *)
(* table of the run that was not interrupted                               *)
ResumedSameAsUninterrupted ==
    (pc \in {"done", "crashed"} /\ reached) => store2 = store[TableOf[cmd]]

(* the rows of the table of the run started again that have key k *)
ResumedWithKey(k) == {i \in 1..Len(store2) : KeyOf(TableOf[cmd], store2[i]) = k}

(* every key of the batch written last has one row in the table of the run *)
(* started again, with the values of the last reading of the key           *)
ResumedHoldsInput ==
    LET t == lastWrite.t
        recs == lastWrite.recs
    IN  (t # "none" /\ ~lastWrite.err /\ \A i \in 1..Len(recs) : ~BadFloat(t, recs[i]))
        => \A i \in 1..Len(recs) :
              LET k == KeyOf(t, recs[i])
              IN  /\ Cardinality(ResumedWithKey(k)) = 1
                  /\ \A j \in ResumedWithKey(k) : store2[j] = LastWithKey(t, recs, k)

(* C19: an import interrupted after any prefix of its batches and then run *)
(* again from the start leaves the store as one uninterrupted run does: no *)
(* key is duplicated and every key holds the values of the input.          *)
C19_InterruptedThenRerun ==
    /\ ResumedSameAsUninterrupted
    /\ \A k \in {KeyOf(TableOf[cmd], store2[i]) : i \in 1..Len(store2)} :
          Cardinality(ResumedWithKey(k)) = 1
    /\ ResumedHoldsInput


(***************************************************************************)
(* Properties of two runs on one table                                     *)
(***************************************************************************)
(* the keys of the records of the file of run p *)
KeysOfRun(p) == {KeyOf(TableOf[cmd], inputs[p][i]) : i \in 1..Len(inputs[p])}

(* no statement of run p carries a key twice: alone, the run writes every  *)
(* key of its file                                                         *)
RunWritesAlone(p) ==
    \A n \in 1..Len(Statements(cmd, inputs[p])) :
        ~DuplicateKeys(TableOf[cmd], Statements(cmd, inputs[p])[n])

(* C20: for every interleaving of the batch writes of two runs on one      *)
(* table with overlapping keys, the final table has exactly one row per    *)
(* key, and the values of each row are those of one single reading that    *)
(* one of the two runs submitted.  Of "one row per key" the formula asks,  *)
(* when both runs have ended, one row for every key of a run that writes   *)
(* all its keys when it runs alone, and never two rows of one key.         *)
C20_InterleavedWrites ==
    LET t == TableOf[cmd]
    IN  /\ \A i, j \in 1..Len(store[t]) :
              KeyOf(t, store[t][i]) = KeyOf(t, store[t][j]) => i = j
        /\ \A r \in Rows(t) : \E p \in Runs : \E i \in 1..Len(inputs[p]) : inputs[p][i] = r
        /\ (\A p \in Runs : queue[p] = <<>>) =>
              \A p \in Runs : RunWritesAlone(p) =>
                  \A k \in KeysOfRun(p) : Cardinality(RowsWithKey(t, k)) = 1

(* the column of the Enercon file behind a column of the report *)
EnerconColumn ==
    [c \in MetricColumns |->
        CASE c = "active_power_generation" -> "active_power_generation"
          [] c = "windspeed_outside_nacelle" -> "wind_speed_outside_nacelle"
          [] c = "temperature_outside_nacelle" -> "temperature_outside_nacelle"
          [] c = "winddirection_outside_nacelle" -> "wind_direction_outside_nacelle"]

(* the readings built from the file for the instant t *)
ReadingsAt(t) == {j \in 1..Len(readings) : readings[j].date = t}

(* the value that column c of the series has to show at the instant t: the *)
(* value of the last reading of the file for t, null when there is none    *)
Ingested(c, t) ==
    IF ReadingsAt(t) = {} THEN NaN
    ELSE readings[CHOOSE j \in ReadingsAt(t) : \A k \in ReadingsAt(t) : k <= j][EnerconColumn[c]]

(* the series of column m of structure of item k of the machine list *)
SeriesOf(k, m) == machine_dataframes[Len(structure) * (k - 1) + m]

(* C21: after the Enercon import of rows of one asset on grid instants of  *)
(* one day, the asset being in no other table and listed in the machine    *)
(* list, the series of the asset in the report of that day shows, at every *)
(* instant of a row of the file, the metric values of that row, and null   *)
(* at every other instant of the grid                                      *)
C21_EndToEnd ==
    \A k \in 1..machine_no :
        upper(strip(api_data[k].locno)) = A1 =>
            \A m \in 1..Len(structure) : \A i \in 1..Len(master_index) :
                SeriesOf(k, m)[i] = Ingested(structure[m][1], master_index[i])

(* the report is written after the import of two rows, at 00:00 and 00:10: *)
(* the series of A1 are populated at the first two instants and nowhere    *)
(* else                                                                    *)
C21_Witness ==
    /\ cmd = "import_enercon_scada"
    /\ rpc = "done"
    /\ full_report # <<>>
    /\ Len(readings) = 2
    /\ readings[1].date = 0
    /\ readings[2].date = freq
    /\ machine_no = 1
    /\ \A m \in 1..Len(structure) : \A i \in 1..Len(master_index) :
            IsNull(SeriesOf(1, m)[i]) <=> i > 2

(* s is the beginning of t *)
IsPrefix(s, t) == Len(s) <= Len(t) /\ s = SubSeq(t, 1, Len(s))

(* no reading of the open file waits in a buffer: the file, or the run, has *)
(* ended                                                                    *)
FileEnded == pc \in {"files", "done", "crashed"}

(* C22: in extraction, import_enercon_scada and import_gtmw every reading  *)
(* built from a file is handed to the store writer in exactly one batch    *)
(* and in the order it was built: the batches handed so far, put end to    *)
(* end, are the first readings built; when the file has ended they are all *)
(* the readings built; and no batch is empty                               *)
C22_EveryReadingInOneBatch ==
    /\ \A b \in 1..Len(handed) : handed[b] # <<>>
    /\ IsPrefix(Concat(handed), readings)
    /\ FileEnded => Concat(handed) = readings

(* the entry of tables that a row of a series was read from: the readings  *)
(* of entry n carry the active power 10 * (10 * n + j) + 1                 *)
TableOfRow(r) == r.active_power_generation \div 100

(* the rows of table t inside the day of the request, as the keys and the  *)
(* instants of the series they belong to                                   *)
RowsOfDay(n) ==
    {<<r.locno_key, r.datetime>> : r \in {QueryResult(n)[i] : i \in 1..Len(QueryResult(n))}}

(* C23: all rows of the reconciled series of an asset come from one source *)
(* table; rows of two tables are never combined inside one series, also    *)
(* when the two tables hold different timestamps of the asset              *)
C23_SeriesFromOneTable ==
    \A k \in DOMAIN data_map : \A i, j \in 1..Len(data_map[k]) :
        TableOfRow(data_map[k][i]) = TableOfRow(data_map[k][j])

(* all tables are read; inhouse_scada_data holds A1 at 00:00 only and gtmw *)
(* holds A1 at 00:05 only; the series of A1 is the row of gtmw alone       *)
C23_Witness ==
    /\ rpc = "api"
    /\ fetched = {tables[n].name : n \in 1..Len(tables)}
    /\ RowsOfDay(1) = {<<A1, 0>>}
    /\ RowsOfDay(2) = {<<A1, 300>>}
    /\ A1 \in DOMAIN data_map
    /\ Len(data_map[A1]) = 1
    /\ data_map[A1][1].datetime = 300
    /\ TableOfRow(data_map[A1][1]) = 2

(* the row that a tuple of the file stands for when every stored column    *)
(* takes the cell of the file column whose header, normalised and renamed, *)
(* is the name of the stored column                                        *)
ByHeader(cols, tuple) ==
    [c \in {insert_columns[k] : k \in 1..Len(insert_columns)} |->
        tuple[CHOOSE k \in 1..Len(cols) :
                cols[k] \in DOMAIN column_map /\ column_map[cols[k]] = c]]

(* the headers of the file are the six expected names, in any order *)
SixExpected(cols) ==
    Len(cols) = Len(insert_columns) /\ {cols[k] : k \in 1..Len(cols)} = DOMAIN column_map

(* C24: for an Inhouse CSV whose headers are the six expected names, in    *)
(* any order, case and surrounding whitespace, every row that the write of *)
(* the file stores holds, in each column, the value of the file column     *)
(* whose header matches it                                                 *)
C24_StoredByHeader ==
    [][(cmd = "import_inhouse" /\ pc = "write" /\ SixExpected(columns))
          => \A s \in Rows("inhouse_scada_data")' \ Rows("inhouse_scada_data") :
                \E i \in 1..Len(records) : s = ByHeader(columns, records[i])]_vars

==============================================================================
